---- MODULE Spec2Model ----
(***************************************************************************)
(* dotagents: reconciliation of a canonical home store of prompts and      *)
(* skills against satellite source roots (core/assets.ts,                  *)
(* core/scan-conflicts.ts, commands/scan-command.ts).                      *)
(*                                                                         *)
(* A JavaScript string is modelled as a sequence of one-character strings, *)
(* so that split, join, concatenation and comparison are computed and not  *)
(* assumed.                                                                *)
(***************************************************************************)
EXTENDS Integers, Sequences, FiniteSets, TLC

VARIABLES
    home,       \* home store: [kind, id] -> content of the asset at its canonical path, or Absent
    src,        \* source roots: [root, dir, kind, id] -> content of the asset found there, or Absent
    tracked,    \* set of relative paths `git ls-files` reports for the home repository
    pc,         \* "setup" (before the command), "running", "scanned", "synced", "rescanned"
                \* (a second run), "crashed" (the command has thrown)
    report,     \* ScanReport of the last scanUnsyncedAssets
    conflicts,  \* ScanConflict[] of the last buildScanConflicts
    imports,    \* one record per importDiscoveredAssetToHome call of the last batch, in call order
    syncMode,   \* how the last batch was asked for: "none", "sync-all", "sync-select", "import"
    unreadable, \* paths of the source file systems that deny access (EACCES)
    statusItems, \* ScanStatusItem[] of the last buildScanStatusItems
    selected,   \* the selection handed to the last syncSelectedAssets, or None
    exitCode,   \* what the last syncSelectedAssets returned, -1 when none has returned
    pipe,       \* the awaits of a running scan: which walks and fingerprint reads have settled
    call,       \* a call of a function of the library: its name, its argument, what it returned
    treeA,      \* fingerprinting: a skill directory tree (relative path -> bytes)
    treeB,      \* fingerprinting: a second skill directory tree
    digestA,    \* fingerprinting: digest of the last fingerprintAsset run over treeA, or None
    digestB     \* fingerprinting: digest of the last fingerprintAsset run over treeB, or None

scanVars ==
    <<home, src, tracked, pc, report, conflicts, imports, syncMode, unreadable, statusItems,
      selected, exitCode, pipe, call>>
fpVars == <<treeA, treeB, digestA, digestB>>
vars ==
    <<home, src, tracked, pc, report, conflicts, imports, syncMode, unreadable, statusItems,
      selected, exitCode, pipe, call, treeA, treeB, digestA, digestB>>

\* No scan is running; no function has been called.
NoPipe == [phase |-> "idle"]
NoCall == [op |-> "none"]

\* A path that does not exist; a value that is null or undefined; the
\* outcome of a read the operating system refuses (EACCES).
Absent == [absent |-> TRUE]
None == [none |-> TRUE]
Eacces == [eacces |-> TRUE]

(***************************************************************************)
(* Strings                                                                 *)
(***************************************************************************)
NL == "\n"

\* The longest prefix of s that holds no separator character.
RECURSIVE UpToSep(_, _)
UpToSep(s, sep) ==
    IF s = <<>> \/ Head(s) = sep THEN <<>> ELSE <<Head(s)>> \o UpToSep(Tail(s), sep)

\* String.prototype.split on a one-character separator.
RECURSIVE Split(_, _)
Split(s, sep) ==
    LET first == UpToSep(s, sep)
    IN  IF Len(first) = Len(s)
        THEN <<first>>
        ELSE <<first>> \o Split(SubSeq(s, Len(first) + 2, Len(s)), sep)

\* Array.prototype.join with a one-character separator.
RECURSIVE Join(_, _)
Join(parts, sep) ==
    IF parts = <<>> THEN <<>>
    ELSE IF Len(parts) = 1 THEN parts[1]
    ELSE parts[1] \o <<sep>> \o Join(Tail(parts), sep)

\* String.prototype.replaceAll of one character by another.
ReplaceAll(s, from, to) == [i \in 1..Len(s) |-> IF s[i] = from THEN to ELSE s[i]]

StartsWith(s, prefix) ==
    Len(prefix) <= Len(s) /\ SubSeq(s, 1, Len(prefix)) = prefix

Range(s) == {s[i] : i \in 1..Len(s)}

\* All orderings of a finite set, as sequences without repetition.
Perms(S) == {p \in [1..Cardinality(S) -> S] : Range(p) = S}

(***************************************************************************)
(* String.prototype.localeCompare (ECMA-402 Intl.Collator, default locale).*)
(* Strings are compared by their collation elements after canonical        *)
(* decomposition: canonically equivalent strings compare equal (ECMA-262   *)
(* 22.1.3.12 requires 0 for them).  The precomposed letter U+00E9 and the  *)
(* pair e + U+0301 are the model's canonically equivalent spellings.       *)
(***************************************************************************)
EAcute == "U+00E9"
CombiningAcute == "U+0301"

\* Canonical decomposition (NFD) over the model's alphabet.
RECURSIVE Decompose(_)
Decompose(s) ==
    IF s = <<>> THEN <<>>
    ELSE IF Head(s) = EAcute THEN <<"e", CombiningAcute>> \o Decompose(Tail(s))
    ELSE <<Head(s)>> \o Decompose(Tail(s))

\* Collation order of the root locale over the model's alphabet:
\* controls, then punctuation (with '/' directly before '\'), digits, letters.
CollationOrder ==
    <<NL, "-", ",", ":", ".", "/", "\\", "0", "a", "b", "c", "d", "e", CombiningAcute,
      "h", "i", "I", "k", "K", "l", "L", "m", "M", "n", "o", "p", "r", "R", "s", "S", "t",
      "x", "y", "z">>

CollationRanks ==
    [ch \in Range(CollationOrder) |-> CHOOSE i \in 1..Len(CollationOrder) : CollationOrder[i] = ch]

CollationRank(ch) == CollationRanks[ch]

RECURSIVE CompareKeys(_, _)
CompareKeys(l, r) ==
    IF l = <<>> /\ r = <<>> THEN 0
    ELSE IF l = <<>> THEN -1
    ELSE IF r = <<>> THEN 1
    ELSE IF CollationRank(Head(l)) < CollationRank(Head(r)) THEN -1
    ELSE IF CollationRank(Head(l)) > CollationRank(Head(r)) THEN 1
    ELSE CompareKeys(Tail(l), Tail(r))

LocaleCompare(l, r) == CompareKeys(Decompose(l), Decompose(r))

\* Array.prototype.sort (stable, ES2019) with the comparator
\* (left, right) => left.localeCompare(right): x goes after every element
\* that does not compare greater.
RECURSIVE InsertByLocale(_, _)
InsertByLocale(sorted, x) ==
    IF sorted = <<>> THEN <<x>>
    ELSE IF LocaleCompare(Head(sorted), x) > 0 THEN <<x>> \o sorted
    ELSE <<Head(sorted)>> \o InsertByLocale(Tail(sorted), x)

RECURSIVE SortByLocale(_)
SortByLocale(s) ==
    IF s = <<>> THEN <<>>
    ELSE InsertByLocale(SortByLocale(SubSeq(s, 1, Len(s) - 1)), s[Len(s)])

(***************************************************************************)
(* Fingerprinter (core/scan-conflicts.ts)                                  *)
(*                                                                         *)
(* A skill directory is a function from relative paths (written with '/')  *)
(* to file bytes.  The platform is its path separator; the file system's   *)
(* enumeration is the order in which the recursive readdir meets the files.*)
(***************************************************************************)
Separators == {"/", "\\"}

\* createHash("sha256")...digest("hex"), taken as collision-free.
Sha256(bytes) == [sha256 |-> bytes]

\* path.join(root, ...entry names) on a platform.
AbsPath(root, rel, sep) == root \o <<sep>> \o ReplaceAll(rel, "/", sep)

\* path.relative(targetPath, file) for a file below targetPath.
Relative(root, file) == SubSeq(file, Len(root) + 2, Len(file))

\* The directory entry of the root through which a file is reached.
TopEntry(rel) == UpToSep(rel, "/")

\* Orders in which the recursion of collectDirectoryFiles can meet the files
\* of a tree: the files below one entry of the root are met together.
IsWalkOrder(order) ==
    \A i, j, k \in 1..Len(order) :
        (i < j /\ j < k /\ TopEntry(order[i]) = TopEntry(order[k]))
            => TopEntry(order[j]) = TopEntry(order[i])

WalkOrders(tree) == {o \in Perms(DOMAIN tree) : IsWalkOrder(o)}

\* collectDirectoryFiles: the files met, as absolute paths, sorted by
\* localeCompare (the sorts of the inner calls are subsumed by the stable
\* sort of the outermost call).
CollectDirectoryFiles(root, order, sep) ==
    SortByLocale([i \in 1..Len(order) |-> AbsPath(root, order[i], sep)])

\* The bytes fed to the hasher for the files in order:
\* rel, "\n", content, "\n" for each.
RECURSIVE HashStream(_, _, _, _)
HashStream(files, root, tree, sep) ==
    IF files = <<>> THEN <<>>
    ELSE LET file == Head(files)
             rel == ReplaceAll(Relative(root, file), sep, "/")
         IN  rel \o <<NL>> \o tree[rel] \o <<NL>>
                 \o HashStream(Tail(files), root, tree, sep)

\* fingerprintAsset for kind "skill".
FingerprintSkill(root, tree, order, sep) ==
    LET files == CollectDirectoryFiles(root, order, sep)
    IN  [hash |-> Sha256(HashStream(files, root, tree, sep)),
         description |-> Len(files)]

\* fingerprintAsset for kind "prompt": the content is hashed whole.
FingerprintPrompt(content) ==
    [hash |-> Sha256(content), description |-> Len(Split(content, NL))]


(***************************************************************************)
(* Asset model (core/types.ts, core/assets.ts)                             *)
(***************************************************************************)
Prompt == <<"p", "r", "o", "m", "p", "t">>
Skill == <<"s", "k", "i", "l", "l">>
AssetKinds == {Prompt, Skill}

PromptsDir == <<"p", "r", "o", "m", "p", "t", "s">>
CommandsDir == <<"c", "o", "m", "m", "a", "n", "d", "s">>
SkillsDir == <<"s", "k", "i", "l", "l", "s">>
MdExt == <<".", "m", "d">>
Manifest == <<"S", "K", "I", "L", "L", ".", "m", "d">>

\* Conventional sub-paths checked below a source root, in the order of the
\* code's lists (the model keeps the leading entries of each list).
PROMPT_SOURCE_DIRS == <<PromptsDir, CommandsDir>>
SKILL_SOURCE_DIRS == <<SkillsDir>>

\* Asset ids of the model: a plain one, and one holding ':' and '/'.
IdR == <<"r">>
IdXY == <<"x", ":", "y", "/", "r">>
PromptIds == {IdR, IdXY}
SkillIds == {IdR}
IdsOf(kind) == IF kind = Prompt THEN PromptIds ELSE SkillIds

\* A prompt id that differs from IdR by letter case only.
IdUpperR == <<"R">>

\* Ids in the order the breadth-first walkDirectory meets them: by depth.
IdsInWalkOrder == <<IdUpperR, IdR, IdXY>>

\* File contents: a prompt is one file's text, a skill a directory tree.
PromptContents == {[text |-> <<"c">>], [text |-> <<"d">>]}
SkillTrees ==
    {[tree |-> [f \in {Manifest} |-> <<>>]], [tree |-> [f \in {Manifest} |-> <<"z">>]]}
ContentsOf(kind) == IF kind = Prompt THEN PromptContents ELSE SkillTrees

\* A skill directory of the home store can hold a file its sources lack.
ExtraFile == <<"n">>
HomeSkillTrees ==
    {[tree |-> [f \in {Manifest} |-> <<>>]],
     [tree |-> [f \in {Manifest, ExtraFile} |-> IF f = Manifest THEN <<"z">> ELSE <<>>]]}
HomeContentsOf(kind) == IF kind = Prompt THEN PromptContents ELSE HomeSkillTrees

\* Resolved home directory and the configured scan sources (ScanSource[]).
HomeRoot == <<"/", "h">>
Sources ==
    <<[name |-> <<"a">>, root |-> <<"/", "a">>, explicit |-> FALSE],
      [name |-> <<"b">>, root |-> <<"/", "b">>, explicit |-> FALSE]>>

DirsOf(kind) == IF kind = Prompt THEN PROMPT_SOURCE_DIRS ELSE SKILL_SOURCE_DIRS

\* Places where a source file system can hold an asset.
SrcSlots ==
    {[source |-> i, dir |-> d, kind |-> k, id |-> id] :
        i \in 1..Len(Sources), d \in Range(PROMPT_SOURCE_DIRS) \cup Range(SKILL_SOURCE_DIRS),
        k \in AssetKinds, id \in PromptIds \cup SkillIds}

\* The places of the model's file systems: the second root holds no
\* commands directory.
ValidSlot(slot) ==
    /\ slot.dir \in Range(DirsOf(slot.kind))
    /\ slot.id \in IdsOf(slot.kind)
    /\ (slot.dir = CommandsDir => (slot.source = 1 /\ slot.id = IdR))

ValidSrcSlots == {slot \in SrcSlots : ValidSlot(slot)}

\* The place of the prompt whose id differs by case, in the second root.
CasedSlot == [source |-> 2, dir |-> PromptsDir, kind |-> Prompt, id |-> IdUpperR]
AllSrcSlots == ValidSrcSlots \cup {CasedSlot}

\* The places written when ids can differ by case: those of the plain id.
CasedSrcSlots == {slot \in AllSrcSlots : slot.id # IdXY}

HomeSlots == {<<k, id>> : k \in AssetKinds, id \in PromptIds \cup SkillIds}
ValidHomeSlots == {hs \in HomeSlots : hs[2] \in IdsOf(hs[1])}
AllHomeSlots == ValidHomeSlots \cup {<<Prompt, IdUpperR>>}

\* path.join(root, dir, id + ".md") of a prompt file, path.join(root, dir, id)
\* of a skill directory.
AssetPath(root, dir, kind, id) ==
    root \o <<"/">> \o dir \o <<"/">> \o id \o (IF kind = Prompt THEN MdExt ELSE <<>>)

SlotPaths ==
    [slot \in AllSrcSlots |->
        AssetPath(Sources[slot.source].root, slot.dir, slot.kind, slot.id)]

SlotPath(slot) == SlotPaths[slot]

SlotAt == [path \in {SlotPaths[slot] : slot \in AllSrcSlots} |->
            CHOOSE slot \in AllSrcSlots : SlotPaths[slot] = path]

\* What a read of a source path yields.
SrcContent(s, path) == s[SlotAt[path]]

\* Mutant: a root that cannot be read is still listed, its files are not.
Visible_RootStillListed(s, unread) ==
    [slot \in DOMAIN s |->
        IF s[slot] # Absent
           /\ (Sources[slot.source].root \in unread \/ SlotPaths[slot] \in unread)
        THEN Eacces
        ELSE s[slot]]

\* The source file systems as the process sees them when the paths of
\* `unread` deny access: below such a root isDirectory is false for every
\* conventional directory (stat fails), so nothing is there; such a file is
\* listed by readdir and stat, and a read of it fails.
Visible(s, unread) ==
    [slot \in DOMAIN s |->
        IF Sources[slot.source].root \in unread THEN Absent
        ELSE IF s[slot] # Absent /\ SlotPaths[slot] \in unread THEN Eacces
        ELSE s[slot]]

\* pathExists / read of the canonical home path of an identity.
HomeContent(h, kind, id) == IF <<kind, id>> \in DOMAIN h THEN h[<<kind, id>>] ELSE Absent

\* Relative path of a file of the home repository, as git ls-files prints it.
HomePromptRel(id) == PromptsDir \o <<"/">> \o id \o MdExt
HomeSkillPrefix(id) == SkillsDir \o <<"/">> \o id \o <<"/">>

\* Files git can report as tracked in the home repository.
TrackablePaths ==
    {HomePromptRel(id) : id \in PromptIds} \cup {HomeSkillPrefix(id) \o Manifest : id \in SkillIds}

\* The files of the home repository that exist: git adds no other.
HomeFiles(h) ==
    {HomePromptRel(id) : id \in {p \in PromptIds : h[<<Prompt, p>>] # Absent}}
        \cup {HomeSkillPrefix(id) \o Manifest :
                id \in {k \in SkillIds : h[<<Skill, k>>] # Absent
                                            /\ Manifest \in DOMAIN h[<<Skill, k>>].tree}}


(***************************************************************************)
(* Source Walker and Catalog Reader (core/assets.ts)                       *)
(***************************************************************************)
RECURSIVE Flatten(_)
Flatten(ss) == IF ss = <<>> THEN <<>> ELSE Head(ss) \o Flatten(Tail(ss))

\* Promise.all(promises): `order` is the order in which the promises settle;
\* each value is stored at the index of its promise.
RECURSIVE Settle(_, _, _)
Settle(values, results, order) ==
    IF order = <<>> THEN values
    ELSE Settle([values EXCEPT ![Head(order)] = results[Head(order)]], results, Tail(order))

\* Mutant: the values are collected in the order of settlement.
PromiseAll_BySettlement(results, order) == [n \in 1..Len(order) |-> results[order[n]]]

PromiseAll(results, order) == Settle([i \in 1..Len(results) |-> None], results, order)

\* Orders in which the walks of the source roots can complete; the order
\* of the sources themselves.
SettleOrders == Perms(1..Len(Sources))
SourceOrder == [i \in 1..Len(Sources) |-> i]

\* listPromptIdsFromRoot(home): ids of the markdown files below home/prompts.
ListHomePromptIds(h) == {hs[2] : hs \in {x \in DOMAIN h : x[1] = Prompt /\ h[x] # Absent}}

\* listSkillIdsFromRoot(home): ids of the directories below home/skills that
\* directly hold a manifest file.
ListHomeSkillIds(h) ==
    {id \in SkillIds : HomeContent(h, Skill, id) # Absent
                        /\ Manifest \in DOMAIN HomeContent(h, Skill, id).tree}

\* The assets one resolved root of a source yields, in walk order.
DiscoverInRoot(s, i, dir, kind) ==
    LET slotOf(id) == [source |-> i, dir |-> dir, kind |-> kind, id |-> id]
        Found(id) == slotOf(id) \in DOMAIN s /\ s[slotOf(id)] # Absent
        ids == SelectSeq(IdsInWalkOrder, Found)
    IN  [n \in 1..Len(ids) |->
            [id |-> ids[n], kind |-> kind, source |-> Sources[i].name,
             path |-> SlotPath(slotOf(ids[n]))]]

\* discoverPromptsFromSource / discoverSkillsFromSource: the roots in the
\* order of the conventional sub-path list.
DiscoverFromSource(s, i, kind) ==
    Flatten([d \in 1..Len(DirsOf(kind)) |-> DiscoverInRoot(s, i, DirsOf(kind)[d], kind)])

\* uniqueAssets: first occurrence of each `${kind}:${id}:${path}` key.
AssetKey(asset) == asset.kind \o <<":">> \o asset.id \o <<":">> \o asset.path

RECURSIVE UniqueAssetsFrom(_, _)
UniqueAssetsFrom(assets, seen) ==
    IF assets = <<>> THEN <<>>
    ELSE IF AssetKey(Head(assets)) \in seen THEN UniqueAssetsFrom(Tail(assets), seen)
    ELSE <<Head(assets)>> \o UniqueAssetsFrom(Tail(assets), seen \cup {AssetKey(Head(assets))})

UniqueAssets(assets) == UniqueAssetsFrom(assets, {})

\* One walk of scanUnsyncedAssets: [...prompts, ...skills] of a source.
WalkSource(s, i) == DiscoverFromSource(s, i, Prompt) \o DiscoverFromSource(s, i, Skill)

\* scanUnsyncedAssets from the awaited results of the walks.
ReportOf(h, walked) ==
    LET homePrompts == ListHomePromptIds(h)
        homeSkills == ListHomeSkillIds(h)
        discovered == Flatten(walked)
        IsPrompt(asset) == asset.kind = Prompt
        IsSkill(asset) == asset.kind = Skill
        discoveredPrompts == UniqueAssets(SelectSeq(discovered, IsPrompt))
        discoveredSkills == UniqueAssets(SelectSeq(discovered, IsSkill))
        UnsyncedPrompt(asset) == asset.kind = Prompt /\ asset.id \notin homePrompts
        UnsyncedSkill(asset) == asset.kind = Skill /\ asset.id \notin homeSkills
    IN  [home |-> HomeRoot,
         scannedSources |-> [i \in 1..Len(Sources) |-> Sources[i].root],
         discoveredPrompts |-> discoveredPrompts,
         discoveredSkills |-> discoveredSkills,
         unsyncedPrompts |-> UniqueAssets(SelectSeq(discoveredPrompts, UnsyncedPrompt)),
         unsyncedSkills |-> UniqueAssets(SelectSeq(discoveredSkills, UnsyncedSkill))]

\* scanUnsyncedAssets, the walks of the sources completing in `order`.
ScanUnsyncedAssets(h, s, order) ==
    ReportOf(h, PromiseAll([i \in 1..Len(Sources) |-> WalkSource(s, i)], order))


(***************************************************************************)
(* Reconciler (core/scan-conflicts.ts)                                     *)
(***************************************************************************)
\* Array.prototype.sort() without comparator: order by UTF-16 code units.
CodeUnitOrder ==
    <<NL, ",", "-", ".", "/", "0", ":", "I", "K", "L", "M", "R", "S", "\\", "a", "b", "c", "d",
      "e", "h", "i", "k", "l", "m", "n", "o", "p", "r", "s", "t", "x", "y", "z",
      EAcute, CombiningAcute>>

CodeUnitRanks ==
    [ch \in Range(CodeUnitOrder) |-> CHOOSE i \in 1..Len(CodeUnitOrder) : CodeUnitOrder[i] = ch]

CodeUnitRank(ch) == CodeUnitRanks[ch]

RECURSIVE CodeUnitLess(_, _)
CodeUnitLess(l, r) ==
    IF r = <<>> THEN FALSE
    ELSE IF l = <<>> THEN TRUE
    ELSE IF CodeUnitRank(Head(l)) # CodeUnitRank(Head(r))
         THEN CodeUnitRank(Head(l)) < CodeUnitRank(Head(r))
    ELSE CodeUnitLess(Tail(l), Tail(r))

\* [...new Set(strings)].sort()
SortedUnique(strings) ==
    CHOOSE q \in Perms(strings) : \A i, j \in 1..Len(q) : i < j => CodeUnitLess(q[i], q[j])

\* groupByKindAndId: a Map in insertion order, keyed `${kind}:${id}`.
GroupKey(asset) == asset.kind \o <<":">> \o asset.id

RECURSIVE GroupInto(_, _)
GroupInto(grouped, assets) ==
    IF assets = <<>> THEN grouped
    ELSE LET asset == Head(assets)
             key == GroupKey(asset)
             at == {i \in 1..Len(grouped) : grouped[i].key = key}
         IN  IF at # {}
             THEN GroupInto([grouped EXCEPT ![CHOOSE i \in at : TRUE].assets = @ \o <<asset>>],
                            Tail(assets))
             ELSE GroupInto(grouped \o <<[key |-> key, assets |-> <<asset>>]>>, Tail(assets))

GroupByKindAndId(discoveredAssets) == GroupInto(<<>>, discoveredAssets)

\* Mutant: [kind, id] = key.split(":"), the parts after the second dropped.
ParseKey_FirstColon(key) ==
    LET parts == Split(key, ":")
    IN  <<parts[1], IF Len(parts) > 1 THEN parts[2] ELSE <<>>>>

\* parseKey: [kindRaw, ...idParts] = key.split(":"); id = idParts.join(":").
ParseKey(key) ==
    LET parts == Split(key, ":")
    IN  <<Head(parts), Join(Tail(parts), ":")>>

\* fingerprintAsset(kind, targetPath): the directory walk meets the files in
\* some order of the file system; the host's separator is '/'.
FingerprintAsset(kind, targetPath, content) ==
    IF kind = Prompt
    THEN FingerprintPrompt(content.text)
    ELSE FingerprintSkill(targetPath, content.tree,
                          CHOOSE o \in WalkOrders(content.tree) : TRUE, "/")

ConflictStates ==
    {"ambiguous-multi-source", "content-drift", "home-modified-untracked",
     "home-untracked", "no-conflict"}

\* homeTracked of buildScanConflicts.
HomeTracked(kind, id, trackedFiles) ==
    IF kind = Prompt
    THEN HomePromptRel(id) \in trackedFiles
    ELSE \E file \in trackedFiles : StartsWith(file, HomeSkillPrefix(id))

\* Mutant: the home comparison is made before the ambiguity test.
ClassifyState_HomeFirst(uniqueSourceHashes, sourceFingerprints, homeExists, homeFingerprint, homeTracked) ==
    IF homeExists /\ homeFingerprint # None
    THEN IF sourceFingerprints # <<>> /\ sourceFingerprints[1].hash # homeFingerprint.hash
         THEN (IF homeTracked THEN "content-drift" ELSE "home-modified-untracked")
         ELSE IF Cardinality(uniqueSourceHashes) > 1 THEN "ambiguous-multi-source"
         ELSE IF ~homeTracked THEN "home-untracked"
         ELSE "no-conflict"
    ELSE IF Cardinality(uniqueSourceHashes) > 1 THEN "ambiguous-multi-source"
    ELSE "no-conflict"

\* Mutant: a mismatch is reported as content-drift whether tracked or not.
ClassifyState_NoTrackedSplit(uniqueSourceHashes, sourceFingerprints, homeExists, homeFingerprint, homeTracked) ==
    IF Cardinality(uniqueSourceHashes) > 1 THEN "ambiguous-multi-source"
    ELSE IF homeExists /\ homeFingerprint # None
    THEN IF sourceFingerprints # <<>> /\ sourceFingerprints[1].hash # homeFingerprint.hash
         THEN "content-drift"
         ELSE IF ~homeTracked THEN "home-untracked"
         ELSE "no-conflict"
    ELSE "no-conflict"

\* Mutant: the untracked-home branch is missing.
ClassifyState_NoHygiene(uniqueSourceHashes, sourceFingerprints, homeExists, homeFingerprint, homeTracked) ==
    IF Cardinality(uniqueSourceHashes) > 1 THEN "ambiguous-multi-source"
    ELSE IF homeExists /\ homeFingerprint # None
    THEN IF sourceFingerprints # <<>> /\ sourceFingerprints[1].hash # homeFingerprint.hash
         THEN (IF homeTracked THEN "content-drift" ELSE "home-modified-untracked")
         ELSE "no-conflict"
    ELSE "no-conflict"

\* Mutant: the hashes are compared with === instead of !==.
ClassifyState_InvertedCompare(uniqueSourceHashes, sourceFingerprints, homeExists, homeFingerprint, homeTracked) ==
    IF Cardinality(uniqueSourceHashes) > 1 THEN "ambiguous-multi-source"
    ELSE IF homeExists /\ homeFingerprint # None
    THEN IF sourceFingerprints # <<>> /\ sourceFingerprints[1].hash = homeFingerprint.hash
         THEN (IF homeTracked THEN "content-drift" ELSE "home-modified-untracked")
         ELSE IF ~homeTracked THEN "home-untracked"
         ELSE "no-conflict"
    ELSE "no-conflict"

\* The state decided for one identity (the if / else-if chain).
ClassifyState(uniqueSourceHashes, sourceFingerprints, homeExists, homeFingerprint, homeTracked) ==
    IF Cardinality(uniqueSourceHashes) > 1 THEN "ambiguous-multi-source"
    ELSE IF homeExists /\ homeFingerprint # None
    THEN IF sourceFingerprints # <<>> /\ sourceFingerprints[1].hash # homeFingerprint.hash
         THEN (IF homeTracked THEN "content-drift" ELSE "home-modified-untracked")
         ELSE IF ~homeTracked THEN "home-untracked"
         ELSE "no-conflict"
    ELSE "no-conflict"

Reason(state) ==
    CASE state = "ambiguous-multi-source" ->
            "Multiple sources provide different content for the same asset id."
      [] state = "content-drift" ->
            "Home asset content differs from discovered source content."
      [] state = "home-modified-untracked" ->
            "Home asset differs from source and is not git-tracked."
      [] state = "home-untracked" -> "Home asset exists but is not git-tracked."
      [] OTHER -> "No detected conflict for this asset id."

Recommendation(state) ==
    CASE state = "ambiguous-multi-source" ->
            "Use --sync-select with one source path after reviewing --diff-full."
      [] state = "content-drift" -> "Review drift with --diff-full before syncing."
      [] state = "home-modified-untracked" ->
            "Review and track home asset, then sync intentionally."
      [] state = "home-untracked" ->
            "Track the home asset in git to avoid accidental drift."
      [] OTHER -> "No action required."

\* The order in which the concurrent fingerprint reads of a group settle
\* when the sources answer in `order`.
ReadOrder(assets, order) ==
    LET indices == [k \in 1..Len(assets) |-> k]
        OfSource(n) ==
            LET From(k) == assets[k].source = Sources[order[n]].name
            IN  SelectSeq(indices, From)
    IN  Flatten([n \in 1..Len(order) |-> OfSource(n)])

\* The home copy of an identity as buildScanConflicts reads it: pathExists,
\* then fingerprintAsset of the canonical path when it exists.
HomeRead(h, kind, id) ==
    LET homePath == AssetPath(HomeRoot, IF kind = Prompt THEN PromptsDir ELSE SkillsDir, kind, id)
        homeExists == HomeContent(h, kind, id) # Absent
    IN  [exists |-> homeExists,
         fingerprint |-> IF homeExists
                         THEN FingerprintAsset(kind, homePath, HomeContent(h, kind, id))
                         ELSE None]

\* The entry pushed for one group once its awaits have returned (no --diff).
ConflictFrom(group, sourceFingerprints, homeRead, trackedFiles) ==
    LET parsed == ParseKey(group.key)
        kind == parsed[1]
        id == parsed[2]
        assets == group.assets
        uniqueSourceHashes == {sourceFingerprints[i].hash : i \in 1..Len(sourceFingerprints)}
        sourceLabels == SortedUnique({assets[i].source : i \in 1..Len(assets)})
        homeTracked == HomeTracked(kind, id, trackedFiles)
        state == ClassifyState(uniqueSourceHashes, sourceFingerprints, homeRead.exists,
                               homeRead.fingerprint, homeTracked)
    IN  [kind |-> kind, id |-> id, state |-> state, reason |-> Reason(state),
         recommendation |-> Recommendation(state), sources |-> sourceLabels]

\* The body of the loop of buildScanConflicts for one group.
ConflictOfGroup(group, h, s, trackedFiles, order) ==
    LET parsed == ParseKey(group.key)
        assets == group.assets
        sourceFingerprints ==
            PromiseAll([i \in 1..Len(assets) |->
                FingerprintAsset(assets[i].kind, assets[i].path, SrcContent(s, assets[i].path))],
                ReadOrder(assets, order))
    IN  ConflictFrom(group, sourceFingerprints, HomeRead(h, parsed[1], parsed[2]), trackedFiles)

\* conflicts.sort(kind.localeCompare || id.localeCompare).
ConflictCompare(left, right) ==
    IF LocaleCompare(left.kind, right.kind) # 0
    THEN LocaleCompare(left.kind, right.kind)
    ELSE LocaleCompare(left.id, right.id)

RECURSIVE InsertConflict(_, _)
InsertConflict(sorted, x) ==
    IF sorted = <<>> THEN <<x>>
    ELSE IF ConflictCompare(Head(sorted), x) > 0 THEN <<x>> \o sorted
    ELSE <<Head(sorted)>> \o InsertConflict(Tail(sorted), x)

RECURSIVE SortConflicts(_)
SortConflicts(cs) ==
    IF cs = <<>> THEN <<>>
    ELSE InsertConflict(SortConflicts(SubSeq(cs, 1, Len(cs) - 1)), cs[Len(cs)])

\* A fingerprint read of buildScanConflicts is refused: the rejection leaves
\* Promise.all and the loop, no try/catch stands between it and the caller.
FingerprintThrows(s, discoveredAssets) ==
    \E i \in 1..Len(discoveredAssets) : SrcContent(s, discoveredAssets[i].path) = Eacces

\* buildScanConflicts, when no read is refused.
BuildScanConflicts(h, s, discoveredAssets, trackedFiles, order) ==
    LET groups == GroupByKindAndId(discoveredAssets)
    IN  SortConflicts([g \in 1..Len(groups) |->
            ConflictOfGroup(groups[g], h, s, trackedFiles, order)])


(***************************************************************************)
(* Importer (core/assets.ts) and batch sync (commands/scan-command.ts)     *)
(***************************************************************************)
AlreadyExists == "Target already exists"
AccessDenied == "EACCES"

\* fs.cp(source, target, {recursive: true, force: true}): every file of the
\* source tree is written into the target directory.
Cp(targetTree, sourceTree) ==
    LET old == IF targetTree = Absent THEN <<>> ELSE targetTree.tree
    IN  [tree |-> [f \in DOMAIN old \cup DOMAIN sourceTree.tree |->
                    IF f \in DOMAIN sourceTree.tree THEN sourceTree.tree[f] ELSE old[f]]]

\* Mutant: the existing target directory is not removed before the copy.
CopyDirectory_NoRemove(h, id, sourceTree, force) ==
    LET targetExists == HomeContent(h, Skill, id) # Absent
    IN  IF targetExists /\ ~force
        THEN [ok |-> FALSE, home |-> h, error |-> AlreadyExists]
        ELSE IF sourceTree = Eacces
        THEN [ok |-> FALSE, home |-> [h EXCEPT ![<<Skill, id>>] = [tree |-> <<>>]],
              error |-> AccessDenied]
        ELSE [ok |-> TRUE,
              home |-> [h EXCEPT ![<<Skill, id>>] = Cp(HomeContent(h, Skill, id), sourceTree)],
              error |-> ""]

\* copyDirectory(target, source, force) into the home store.
CopyDirectory(h, id, sourceTree, force) ==
    LET targetExists == HomeContent(h, Skill, id) # Absent
    IN  IF targetExists /\ ~force
        THEN [ok |-> FALSE, home |-> h, error |-> AlreadyExists]
        ELSE LET removed == IF targetExists THEN Absent ELSE HomeContent(h, Skill, id)
             IN  IF sourceTree = Eacces
                 THEN \* fs.cp has made the target directory when the copy of
                      \* the file is refused
                      [ok |-> FALSE,
                       home |-> [h EXCEPT ![<<Skill, id>>] = [tree |-> <<>>]],
                       error |-> AccessDenied]
                 ELSE [ok |-> TRUE,
                       home |-> [h EXCEPT ![<<Skill, id>>] = Cp(removed, sourceTree)],
                       error |-> ""]

\* Mutant: the existence test is missing, the target is always overwritten.
CopyFile_NoGuard(h, id, sourceText, force) ==
    [ok |-> TRUE, home |-> [h EXCEPT ![<<Prompt, id>>] = sourceText], error |-> ""]

\* copyFile(target, source, force) into the home store.
CopyFile(h, id, sourceText, force) ==
    LET targetExists == HomeContent(h, Prompt, id) # Absent
    IN  IF targetExists /\ ~force
        THEN [ok |-> FALSE, home |-> h, error |-> AlreadyExists]
        ELSE IF sourceText = Eacces
        THEN [ok |-> FALSE, home |-> h, error |-> AccessDenied]
        ELSE [ok |-> TRUE, home |-> [h EXCEPT ![<<Prompt, id>>] = sourceText], error |-> ""]

\* Mutant: success is returned and nothing is copied.
ImportDiscoveredAssetToHome_NoCopy(h, s, asset, force) ==
    [ok |-> TRUE, home |-> h, error |-> ""]

\* importDiscoveredAssetToHome({home, asset, force}).
ImportDiscoveredAssetToHome(h, s, asset, force) ==
    IF asset.kind = Prompt
    THEN CopyFile(h, asset.id, SrcContent(s, asset.path), force)
    ELSE CopyDirectory(h, asset.id, SrcContent(s, asset.path), force)

\* Mutant: the loop ends at the first import that fails.
RECURSIVE ImportEach_AbortOnFailure(_, _, _, _)
ImportEach_AbortOnFailure(h, s, targets, force) ==
    IF targets = <<>> THEN [home |-> h, log |-> <<>>, failures |-> 0]
    ELSE LET asset == Head(targets)
             res == ImportDiscoveredAssetToHome(h, s, asset, force)
             rest == IF res.ok THEN ImportEach_AbortOnFailure(res.home, s, Tail(targets), force)
                     ELSE [home |-> res.home, log |-> <<>>, failures |-> 0]
         IN  [home |-> rest.home,
              log |-> <<[asset |-> asset, force |-> force,
                         existed |-> HomeContent(h, asset.kind, asset.id) # Absent,
                         ok |-> res.ok, error |-> res.error,
                         before |-> h, after |-> res.home]>> \o rest.log,
              failures |-> rest.failures + (IF res.ok THEN 0 ELSE 1)]

\* One pass of the loop of syncSelectedAssets: the outcome is recorded with
\* the home store before and after the call.
RECURSIVE ImportEach(_, _, _, _)
ImportEach(h, s, targets, force) ==
    IF targets = <<>> THEN [home |-> h, log |-> <<>>, failures |-> 0]
    ELSE LET asset == Head(targets)
             res == ImportDiscoveredAssetToHome(h, s, asset, force)
             rest == ImportEach(res.home, s, Tail(targets), force)
         IN  [home |-> rest.home,
              log |-> <<[asset |-> asset, force |-> force,
                         existed |-> HomeContent(h, asset.kind, asset.id) # Absent,
                         ok |-> res.ok, error |-> res.error,
                         before |-> h, after |-> res.home]>> \o rest.log,
              failures |-> rest.failures + (IF res.ok THEN 0 ELSE 1)]

\* syncSelectedAssets(home, assets, force, selection): selection is null
\* for --sync-all, else the set of `${kind}:${id}:${path}` keys chosen.
NullSelection == [isNull |-> TRUE, keys |-> {}]
Selection(keys) == [isNull |-> FALSE, keys |-> keys]

\* Mutant: the targets are imported from the last to the first.
SyncSelectedAssets_Backwards(h, s, assets, force, selection) ==
    LET Chosen(asset) == AssetKey(asset) \in selection.keys
        kept == IF selection.isNull THEN assets ELSE SelectSeq(assets, Chosen)
        targets == [i \in 1..Len(kept) |-> kept[Len(kept) + 1 - i]]
        run == ImportEach(h, s, targets, force)
    IN  IF ~selection.isNull /\ targets = <<>>
        THEN [home |-> h, log |-> <<>>, code |-> 1]
        ELSE [home |-> run.home, log |-> run.log,
              code |-> IF run.failures > 0 THEN 1 ELSE 0]

\* syncSelectedAssets(home, assets, force, selection).
SyncSelectedAssets(h, s, assets, force, selection) ==
    LET Chosen(asset) == AssetKey(asset) \in selection.keys
        targets == IF selection.isNull THEN assets ELSE SelectSeq(assets, Chosen)
        run == ImportEach(h, s, targets, force)
    IN  IF ~selection.isNull /\ targets = <<>>
        THEN [home |-> h, log |-> <<>>, code |-> 1]
        ELSE [home |-> run.home, log |-> run.log,
              code |-> IF run.failures > 0 THEN 1 ELSE 0]

(***************************************************************************)
(* Status view (commands/scan-command.ts)                                  *)
(***************************************************************************)
\* byAsset of buildScanStatusItems: a Map in insertion order keyed
\* `${kind}:${id}`, each entry collecting the set of source labels.
RECURSIVE ByAsset(_, _)
ByAsset(entries, discovered) ==
    IF discovered = <<>> THEN entries
    ELSE LET asset == Head(discovered)
             key == GroupKey(asset)
             at == {i \in 1..Len(entries) : entries[i].key = key}
         IN  IF at # {}
             THEN ByAsset([entries EXCEPT ![CHOOSE i \in at : TRUE].sources = @ \cup {asset.source}],
                          Tail(discovered))
             ELSE ByAsset(entries \o <<[key |-> key, kind |-> asset.kind, id |-> asset.id,
                                        sources |-> {asset.source}]>>, Tail(discovered))

ScanStates == {"synced-tracked", "synced-untracked", "unsynced-untracked"}

\* Mutant: tracked-file membership decides alone, home membership is not asked.
ScanStateOf_TrackedOnly(kind, id, homePromptIds, homeSkillIds, trackedFiles) ==
    IF HomeTracked(kind, id, trackedFiles) THEN "synced-tracked" ELSE "unsynced-untracked"

\* The state buildScanStatusItems gives an identity.
ScanStateOf(kind, id, homePromptIds, homeSkillIds, trackedFiles) ==
    LET trackedSkillFiles == {file \in trackedFiles : StartsWith(file, SkillsDir \o <<"/">>)}
        trackedPromptIds == {p \in homePromptIds : HomePromptRel(p) \in trackedFiles}
        trackedSkillIds ==
            {k \in homeSkillIds :
                \E file \in trackedSkillFiles : StartsWith(file, HomeSkillPrefix(k))}
    IN  IF kind = Prompt
        THEN IF id \notin homePromptIds THEN "unsynced-untracked"
             ELSE IF id \in trackedPromptIds THEN "synced-tracked" ELSE "synced-untracked"
        ELSE IF id \notin homeSkillIds THEN "unsynced-untracked"
             ELSE IF id \in trackedSkillIds THEN "synced-tracked" ELSE "synced-untracked"

\* items.sort(kind.localeCompare || id.localeCompare || sources.join(",").localeCompare).
StatusCompare(left, right) ==
    IF LocaleCompare(left.kind, right.kind) # 0
    THEN LocaleCompare(left.kind, right.kind)
    ELSE IF LocaleCompare(left.id, right.id) # 0
    THEN LocaleCompare(left.id, right.id)
    ELSE LocaleCompare(Join(left.sources, ","), Join(right.sources, ","))

RECURSIVE InsertStatus(_, _)
InsertStatus(sorted, x) ==
    IF sorted = <<>> THEN <<x>>
    ELSE IF StatusCompare(Head(sorted), x) > 0 THEN <<x>> \o sorted
    ELSE <<Head(sorted)>> \o InsertStatus(Tail(sorted), x)

RECURSIVE SortStatus(_)
SortStatus(items) ==
    IF items = <<>> THEN <<>>
    ELSE InsertStatus(SortStatus(SubSeq(items, 1, Len(items) - 1)), items[Len(items)])

\* buildScanStatusItems.
BuildScanStatusItems(discovered, homePromptIds, homeSkillIds, trackedFiles) ==
    LET byAsset == ByAsset(<<>>, discovered)
    IN  SortStatus([n \in 1..Len(byAsset) |->
            [kind |-> byAsset[n].kind, id |-> byAsset[n].id,
             sources |-> SortedUnique(byAsset[n].sources),
             state |-> ScanStateOf(byAsset[n].kind, byAsset[n].id,
                                   homePromptIds, homeSkillIds, trackedFiles)]])


(***************************************************************************)
(* The scan command as a state machine                                     *)
(***************************************************************************)
MaxSourceFiles == 2

NoReport ==
    [home |-> HomeRoot, scannedSources |-> <<>>, discoveredPrompts |-> <<>>,
     discoveredSkills |-> <<>>, unsyncedPrompts |-> <<>>, unsyncedSkills |-> <<>>]

InitScan ==
    /\ home = [hs \in AllHomeSlots |-> Absent]
    /\ src = [slot \in AllSrcSlots |-> Absent]
    /\ tracked = {}
    /\ pc = "setup"
    /\ report = NoReport
    /\ conflicts = <<>>
    /\ imports = <<>>
    /\ syncMode = "none"
    /\ unreadable = {}
    /\ statusItems = <<>>
    /\ selected = None
    /\ exitCode = -1
    /\ pipe = NoPipe
    /\ call = NoCall

InitFpIdle ==
    /\ treeA = <<>>
    /\ treeB = <<>>
    /\ digestA = None
    /\ digestB = None

\* A tool or a project checkout holds an asset in one of its directories.
WriteSource(slot, content) ==
    /\ pc = "setup"
    /\ unreadable = {}
    /\ src[slot] = Absent
    /\ slot \in ValidSrcSlots
            => Cardinality({x \in ValidSrcSlots : src[x] # Absent}) < MaxSourceFiles
    /\ src' = [src EXCEPT ![slot] = content]
    /\ UNCHANGED <<home, tracked, pc, report, conflicts, imports, syncMode, unreadable,
                   statusItems, selected, exitCode, pipe, call, treeA, treeB, digestA, digestB>>

\* The home store holds one asset before the command runs.
WriteHome(hs, content) ==
    /\ pc = "setup"
    /\ \A x \in AllHomeSlots : home[x] = Absent
    /\ home' = [home EXCEPT ![hs] = content]
    /\ UNCHANGED <<src, tracked, pc, report, conflicts, imports, syncMode, unreadable,
                   statusItems, selected, exitCode, pipe, call, treeA, treeB, digestA, digestB>>

\* A file of the home repository is committed: git ls-files reports it.
GitAdd(file) ==
    /\ pc = "setup"
    /\ tracked = {}
    /\ file \in HomeFiles(home)
    /\ tracked' = {file}
    /\ UNCHANGED <<home, src, pc, report, conflicts, imports, syncMode, unreadable,
                   statusItems, selected, exitCode, pipe, call, treeA, treeB, digestA, digestB>>

\* Paths whose mode can deny access, all of the second source: its root,
\* a prompt file, the manifest of a skill directory.
ChmodPaths ==
    {Sources[2].root} \cup {SlotPaths[slot] : slot \in {x \in AllSrcSlots : x.source = 2}}

\* An existing path of a source file system is made inaccessible.
Chmod(path) ==
    /\ pc = "setup"
    /\ unreadable = {}
    /\ \E slot \in AllSrcSlots :
        /\ src[slot] # Absent
        /\ path \in {Sources[slot.source].root, SlotPaths[slot]}
    /\ unreadable' = {path}
    /\ UNCHANGED <<home, src, tracked, pc, report, conflicts, imports, syncMode,
                   statusItems, selected, exitCode, pipe, call, treeA, treeB, digestA, digestB>>

\* Mutant: the scan rewrites the home store it reads.
Scan_ClearsHome(order) ==
    /\ pc \in {"setup", "synced"}
    /\ home' = [hs \in AllHomeSlots |-> Absent]
    /\ pc' = IF pc = "setup" THEN "scanned" ELSE "rescanned"
    /\ UNCHANGED <<src, tracked, report, conflicts, imports, syncMode, unreadable,
                   statusItems, selected, exitCode, pipe, call, treeA, treeB, digestA, digestB>>

\* runScanCommand up to the conflict list: scanUnsyncedAssets, then
\* buildScanStatusItems and buildScanConflicts over the discovered prompts and
\* skills; the walks of the sources complete in `order`.
Scan(order) ==
    /\ pc \in {"setup", "synced"}
    /\ \E s \in {Visible(src, unreadable)} :
       \E r \in {ScanUnsyncedAssets(home, s, order)} :
       \E discovered \in {r.discoveredPrompts \o r.discoveredSkills} :
           /\ report' = r
           /\ statusItems' = BuildScanStatusItems(discovered, ListHomePromptIds(home),
                                                  ListHomeSkillIds(home), tracked)
           /\ IF FingerprintThrows(s, discovered)
              THEN /\ conflicts' = <<>>
                   /\ pc' = "crashed"
              ELSE /\ conflicts' = BuildScanConflicts(home, s, discovered, tracked, order)
                   /\ pc' = IF pc = "setup" THEN "scanned" ELSE "rescanned"
    /\ imports' = <<>>
    /\ syncMode' = "none"
    /\ selected' = None
    /\ exitCode' = -1
    /\ UNCHANGED <<home, src, tracked, unreadable, pipe, call, treeA, treeB, digestA, digestB>>

UnsyncedAssets == report.unsyncedPrompts \o report.unsyncedSkills
DiscoveredAssets == report.discoveredPrompts \o report.discoveredSkills

\* Discovered assets the batch of the scan command never hands to the
\* importer: their identity is in the catalog of the home store.
SyncedAssets == Range(DiscoveredAssets) \ Range(UnsyncedAssets)

\* scan --sync-all [--force].
SyncAll(force) ==
    /\ pc = "scanned"
    /\ \E run \in {SyncSelectedAssets(home, Visible(src, unreadable), UnsyncedAssets, force,
                                      NullSelection)} :
           /\ home' = run.home
           /\ imports' = run.log
           /\ exitCode' = run.code
    /\ pc' = "synced"
    /\ syncMode' = "sync-all"
    /\ selected' = NullSelection
    /\ UNCHANGED <<src, tracked, report, conflicts, unreadable, statusItems,
                   pipe, call, treeA, treeB, digestA, digestB>>

\* scan --sync-select <kind:id:path> [--force]: one explicit selection.
SyncSelect(key, force) ==
    /\ pc = "scanned"
    /\ \E run \in {SyncSelectedAssets(home, Visible(src, unreadable), UnsyncedAssets, force,
                                      Selection({key}))} :
           /\ home' = run.home
           /\ imports' = run.log
           /\ exitCode' = run.code
    /\ pc' = "synced"
    /\ syncMode' = "sync-select"
    /\ selected' = Selection({key})
    /\ UNCHANGED <<src, tracked, report, conflicts, unreadable, statusItems,
                   pipe, call, treeA, treeB, digestA, digestB>>

\* importDiscoveredAssetToHome called on a discovered asset outside the batch.
ImportAsset(asset, force) ==
    /\ pc = "scanned"
    /\ \E run \in {ImportEach(home, Visible(src, unreadable), <<asset>>, force)} :
           /\ home' = run.home
           /\ imports' = run.log
    /\ pc' = "synced"
    /\ syncMode' = "import"
    /\ UNCHANGED <<src, tracked, report, conflicts, unreadable, statusItems, selected,
                   exitCode, pipe, call, treeA, treeB, digestA, digestB>>

Next ==
    \/ \E slot \in ValidSrcSlots : \E content \in ContentsOf(slot.kind) : WriteSource(slot, content)
    \/ \E hs \in ValidHomeSlots : \E content \in HomeContentsOf(hs[1]) : WriteHome(hs, content)
    \/ \E file \in TrackablePaths : GitAdd(file)
    \/ Scan(SourceOrder)
    \/ \E force \in BOOLEAN : SyncAll(force)
    \/ \E asset \in Range(DiscoveredAssets) : \E force \in BOOLEAN : SyncSelect(AssetKey(asset), force)
    \/ \E asset \in SyncedAssets : \E force \in BOOLEAN : ImportAsset(asset, force)

Init == InitScan /\ InitFpIdle

Spec == Init /\ [][Next]_vars

\* The scan command over source file systems that can deny access and can
\* hold ids that differ by letter case only.
NextIo ==
    \/ \E slot \in CasedSrcSlots : \E content \in ContentsOf(slot.kind) : WriteSource(slot, content)
    \/ \E hs \in ValidHomeSlots : \E content \in HomeContentsOf(hs[1]) : WriteHome(hs, content)
    \/ \E path \in ChmodPaths : Chmod(path)
    \/ \E order \in SettleOrders : Scan(order)
    \/ \E force \in BOOLEAN : SyncAll(force)
    \/ \E asset \in Range(DiscoveredAssets) : \E force \in BOOLEAN : SyncSelect(AssetKey(asset), force)

SpecIo == Init /\ [][NextIo]_vars

\* A directory of home/skills that holds no manifest file of its own: files
\* a user left there, or the parent directory of a nested skill.
BareSkillTree == [tree |-> [f \in {ExtraFile} |-> <<>>]]

\* The scan command when the home store can hold such a directory.
NextBare ==
    \/ Next
    \/ \E id \in SkillIds : WriteHome(<<Skill, id>>, BareSkillTree)

SpecBare == Init /\ [][NextBare]_vars


(***************************************************************************)
(* The scan command await by await                                         *)
(*                                                                         *)
(* The walks of the sources run concurrently under one Promise.all; the    *)
(* groups are reconciled one after the other, the fingerprint reads of the *)
(* copies of a group concurrently under one Promise.all, the home copy     *)
(* after them.                                                             *)
(***************************************************************************)
Unread(n) == [i \in 1..n |-> None]

\* Mutant: the walks are awaited with Promise.race, the first one to settle
\* lets the command go on.
WalksAwaited_Race(settled) == \E k \in 1..Len(Sources) : k \in settled

\* await Promise.all(...) returns when every promise has settled.
WalksAwaited(settled) == \A k \in 1..Len(Sources) : k \in settled

\* runScanCommand calls scanUnsyncedAssets: the walks are started.
StartScan ==
    /\ pc = "setup"
    /\ unreadable = {}
    /\ pc' = "running"
    /\ pipe' = [phase |-> "walking", settled |-> {},
                walks |-> [k \in 1..Len(Sources) |-> <<>>], groups |-> <<>>, g |-> 0,
                reads |-> <<>>, homeRead |-> None, pushed |-> <<>>, basis |-> <<>>]
    /\ UNCHANGED <<home, src, tracked, report, conflicts, imports, syncMode, unreadable,
                   statusItems, selected, exitCode, call, treeA, treeB, digestA, digestB>>

\* The walk of one source settles.
WalkSettles(k) ==
    /\ pc = "running" /\ pipe.phase = "walking"
    /\ k \notin pipe.settled
    /\ pipe' = [pipe EXCEPT !.walks[k] = WalkSource(src, k), !.settled = @ \cup {k}]
    /\ UNCHANGED <<home, src, tracked, pc, report, conflicts, imports, syncMode, unreadable,
                   statusItems, selected, exitCode, call, treeA, treeB, digestA, digestB>>

\* The awaits of scanUnsyncedAssets have returned: the report and the status
\* items are built, buildScanConflicts groups the discovered assets and
\* starts the reads of the first group.
StartReconciler ==
    /\ pc = "running" /\ pipe.phase = "walking"
    /\ WalksAwaited(pipe.settled)
    /\ \E r \in {ReportOf(home, pipe.walks)} :
       \E discovered \in {r.discoveredPrompts \o r.discoveredSkills} :
       \E groups \in {GroupByKindAndId(discovered)} :
           /\ report' = r
           /\ statusItems' = BuildScanStatusItems(discovered, ListHomePromptIds(home),
                                                  ListHomeSkillIds(home), tracked)
           /\ pipe' = [pipe EXCEPT !.phase = "reconciling", !.groups = groups, !.g = 1,
                                   !.reads = IF groups = <<>> THEN <<>>
                                             ELSE Unread(Len(groups[1].assets))]
    /\ UNCHANGED <<home, src, tracked, pc, conflicts, imports, syncMode, unreadable,
                   selected, exitCode, call, treeA, treeB, digestA, digestB>>

\* The fingerprint read of one copy of the current group settles.
FingerprintSettles(i) ==
    /\ pc = "running" /\ pipe.phase = "reconciling"
    /\ pipe.g <= Len(pipe.groups)
    /\ i \in 1..Len(pipe.reads)
    /\ pipe.reads[i] = None
    /\ \E asset \in {pipe.groups[pipe.g].assets[i]} :
           pipe' = [pipe EXCEPT !.reads[i] =
                        FingerprintAsset(asset.kind, asset.path, SrcContent(src, asset.path))]
    /\ UNCHANGED <<home, src, tracked, pc, report, conflicts, imports, syncMode, unreadable,
                   statusItems, selected, exitCode, call, treeA, treeB, digestA, digestB>>

\* The await of the source fingerprints has returned: pathExists and
\* fingerprintAsset of the home copy.
ReadHome ==
    /\ pc = "running" /\ pipe.phase = "reconciling"
    /\ pipe.g <= Len(pipe.groups)
    /\ pipe.homeRead = None
    /\ \A i \in 1..Len(pipe.reads) : pipe.reads[i] # None
    /\ \E parsed \in {ParseKey(pipe.groups[pipe.g].key)} :
           pipe' = [pipe EXCEPT !.homeRead = HomeRead(home, parsed[1], parsed[2])]
    /\ UNCHANGED <<home, src, tracked, pc, report, conflicts, imports, syncMode, unreadable,
                   statusItems, selected, exitCode, call, treeA, treeB, digestA, digestB>>

\* The state of the current group is decided and its entry pushed; the loop
\* goes to the next group.
Classify ==
    /\ pc = "running" /\ pipe.phase = "reconciling"
    /\ pipe.g <= Len(pipe.groups)
    /\ pipe.homeRead # None
    /\ \E group \in {pipe.groups[pipe.g]} :
           pipe' = [pipe EXCEPT
               !.pushed = Append(@, ConflictFrom(group, pipe.reads, pipe.homeRead, tracked)),
               !.basis = Append(@, [key |-> group.key,
                                    copies |-> Len(group.assets),
                                    read |-> {i \in 1..Len(pipe.reads) : pipe.reads[i] # None},
                                    home |-> pipe.homeRead # None]),
               !.g = @ + 1,
               !.reads = IF pipe.g < Len(pipe.groups)
                         THEN Unread(Len(pipe.groups[pipe.g + 1].assets)) ELSE <<>>,
               !.homeRead = None]
    /\ UNCHANGED <<home, src, tracked, pc, report, conflicts, imports, syncMode, unreadable,
                   statusItems, selected, exitCode, call, treeA, treeB, digestA, digestB>>

\* The loop has ended: buildScanConflicts returns the sorted list.
FinishScan ==
    /\ pc = "running" /\ pipe.phase = "reconciling"
    /\ pipe.g > Len(pipe.groups)
    /\ conflicts' = SortConflicts(pipe.pushed)
    /\ pc' = "scanned"
    /\ pipe' = [pipe EXCEPT !.phase = "done"]
    /\ imports' = <<>> /\ syncMode' = "none" /\ selected' = None /\ exitCode' = -1
    /\ UNCHANGED <<home, src, tracked, report, unreadable, statusItems,
                   call, treeA, treeB, digestA, digestB>>

NextPipe ==
    \/ \E slot \in ValidSrcSlots : \E content \in ContentsOf(slot.kind) : WriteSource(slot, content)
    \/ \E hs \in ValidHomeSlots : \E content \in HomeContentsOf(hs[1]) : WriteHome(hs, content)
    \/ StartScan
    \/ \E k \in 1..Len(Sources) : WalkSettles(k)
    \/ StartReconciler
    \/ \E i \in 1..Len(Sources) : FingerprintSettles(i)
    \/ ReadHome
    \/ Classify
    \/ FinishScan

SpecPipe == Init /\ [][NextPipe]_vars


(***************************************************************************)
(* Fingerprinting two skill directories                                    *)
(***************************************************************************)
MaxTreeFiles == 2

\* Relative paths and file bytes of the trees fingerprinted.
FpPaths ==
    {<<"d", "0">>, <<"z">>, <<"d", "/", "z">>, <<EAcute>>, <<"e", CombiningAcute>>}
FpBytes == {<<>>, <<NL, "z", NL>>}

Trees ==
    UNION {[P -> FpBytes] : P \in {Q \in SUBSET FpPaths : Cardinality(Q) <= MaxTreeFiles}}

\* The directory a tree lies in, on a platform.
TreeRoot(name, sep) == <<sep, name>>

\* No scan command runs while trees are fingerprinted.
InitScanIdle ==
    /\ home = <<>>
    /\ src = <<>>
    /\ tracked = {}
    /\ pc = "idle"
    /\ report = <<>>
    /\ conflicts = <<>>
    /\ imports = <<>>
    /\ syncMode = "none"
    /\ unreadable = {}
    /\ statusItems = <<>>
    /\ selected = None
    /\ exitCode = -1
    /\ pipe = NoPipe

InitFp ==
    /\ InitScanIdle
    /\ call = NoCall
    /\ treeA \in Trees
    /\ treeB \in Trees
    /\ digestA = None
    /\ digestB = None

\* fingerprintAsset("skill", dirA) on a platform, the walk meeting the
\* files in one of the orders the file system can give.
FingerprintA(order, sep) ==
    /\ digestA' = FingerprintSkill(TreeRoot("a", sep), treeA, order, sep).hash
    /\ UNCHANGED <<treeA, treeB, digestB, scanVars>>

\* fingerprintAsset("skill", dirB).
FingerprintB(order, sep) ==
    /\ digestB' = FingerprintSkill(TreeRoot("b", sep), treeB, order, sep).hash
    /\ UNCHANGED <<treeA, treeB, digestA, scanVars>>

NextFp ==
    \/ \E order \in WalkOrders(treeA) : \E sep \in Separators : FingerprintA(order, sep)
    \/ \E order \in WalkOrders(treeB) : \E sep \in Separators : FingerprintB(order, sep)

SpecFp == InitFp /\ [][NextFp]_vars

(***************************************************************************)
(* Properties of the fingerprinter                                         *)
(***************************************************************************)
BothFingerprinted == digestA # None /\ digestB # None

\* C8: two directory trees that hold the same (relative path, content)
\* pairs get the same digest, whatever the enumeration order and the
\* platform's path separator.
C8_SameTreeSameDigest ==
    (BothFingerprinted /\ treeA = treeB) => digestA = digestB

\* C9: two directory trees whose (relative path, content) pairs differ get
\* different digests (the stream fed to the hash differs).
C9_DifferentTreeDifferentDigest ==
    (BothFingerprinted /\ treeA # treeB) => digestA # digestB


(***************************************************************************)
(* Id normalization (slugifyName)                                          *)
(***************************************************************************)
\* s without its longest prefix, or suffix, made of the characters of set.
RECURSIVE DropLeading(_, _)
DropLeading(s, set) ==
    IF s # <<>> /\ Head(s) \in set THEN DropLeading(Tail(s), set) ELSE s
RECURSIVE DropTrailing(_, _)
DropTrailing(s, set) ==
    IF s # <<>> /\ s[Len(s)] \in set THEN DropTrailing(SubSeq(s, 1, Len(s) - 1), set) ELSE s

\* String.prototype.toLowerCase.
ToLowerCase(s) ==
    LET upperCase == <<"A", "B", "C", "D", "E", "F", "G", "H", "I", "J", "K", "L", "M",
                       "N", "O", "P", "Q", "R", "S", "T", "U", "V", "W", "X", "Y", "Z">>
        lowerCase == <<"a", "b", "c", "d", "e", "f", "g", "h", "i", "j", "k", "l", "m",
                       "n", "o", "p", "q", "r", "s", "t", "u", "v", "w", "x", "y", "z">>
    IN  [i \in 1..Len(s) |->
            IF s[i] \in Range(upperCase)
            THEN lowerCase[CHOOSE n \in 1..Len(upperCase) : upperCase[n] = s[i]]
            ELSE s[i]]

\* replace(/\.md$/i, "").
DropMdSuffix(s) ==
    IF Len(s) >= 3 /\ ToLowerCase(SubSeq(s, Len(s) - 2, Len(s))) = <<".", "m", "d">>
    THEN SubSeq(s, 1, Len(s) - 3)
    ELSE s

\* replace(/[^a-z0-9._/]+/g, "-"): each run of other characters becomes one dash.
RECURSIVE DashOthers(_)
DashOthers(s) ==
    LET slugChars ==
            {"a", "b", "c", "d", "e", "f", "g", "h", "i", "j", "k", "l", "m",
             "n", "o", "p", "q", "r", "s", "t", "u", "v", "w", "x", "y", "z",
             "0", "1", "2", "3", "4", "5", "6", "7", "8", "9", ".", "_", "/"}
    IN  IF s = <<>> THEN <<>>
        ELSE IF Head(s) \in slugChars THEN <<Head(s)>> \o DashOthers(Tail(s))
        ELSE IF Len(s) >= 2 /\ s[2] \notin slugChars THEN DashOthers(Tail(s))
        ELSE <<"-">> \o DashOthers(Tail(s))

\* replace(/\/{2,}/g, "/") and replace(/-{2,}/g, "-"): runs of ch become one.
RECURSIVE Squeeze(_, _)
Squeeze(s, ch) ==
    IF s = <<>> THEN <<>>
    ELSE IF Head(s) = ch /\ Len(s) >= 2 /\ s[2] = ch THEN Squeeze(Tail(s), ch)
    ELSE <<Head(s)>> \o Squeeze(Tail(s), ch)

\* Mutant: the segments are joined again without the filter.
SlugifyName_NoSegmentFilter(input) ==
    LET whiteSpace == {" ", "\t", NL, "\r"}
        edgeChars == {"-", "/", "."}
        trimmed == DropTrailing(DropLeading(input, whiteSpace), whiteSpace)
        squeezed == Squeeze(Squeeze(DashOthers(DropMdSuffix(ToLowerCase(trimmed))), "/"), "-")
    IN  DropTrailing(DropLeading(squeezed, edgeChars), edgeChars)

\* slugifyName(input): trim, lower case, no .md suffix, dashes for other
\* characters, single slashes and dashes, no leading or trailing [-/.], no
\* empty, "." or ".." segment.
SlugifyName(input) ==
    LET whiteSpace == {" ", "\t", NL, "\r"}
        edgeChars == {"-", "/", "."}
        trimmed == DropTrailing(DropLeading(input, whiteSpace), whiteSpace)
        squeezed == Squeeze(Squeeze(DashOthers(DropMdSuffix(ToLowerCase(trimmed))), "/"), "-")
        normalized == DropTrailing(DropLeading(squeezed, edgeChars), edgeChars)
        KeepSegment(segment) == segment # <<>> /\ segment # <<".">> /\ segment # <<".", ".">>
    IN  Join(SelectSeq(Split(normalized, "/"), KeepSegment), "/")

(***************************************************************************)
(* slugifyName called on a name, and again on what it returned             *)
(***************************************************************************)
MaxSlugParts == 3

\* Names: up to MaxSlugParts pieces, one after the other.
SlugParts ==
    {<<"a">>, <<"B">>, <<".", "m", "d">>, <<"/">>, <<"/", ".", ".", "/">>, <<".">>, <<"-">>,
     <<" ">>}
SlugInputs ==
    {Flatten(parts) : parts \in UNION {[1..n -> SlugParts] : n \in 0..MaxSlugParts}}

InitSlug ==
    /\ InitScanIdle
    /\ InitFpIdle
    /\ call \in {[op |-> "slugifyName", arg |-> name, out |-> <<>>] : name \in SlugInputs}

\* slugifyName(name), then slugifyName of the slug returned.
Slugify ==
    /\ call.op = "slugifyName"
    /\ Len(call.out) < 2
    /\ call' = [call EXCEPT !.out =
                   Append(@, SlugifyName(IF @ = <<>> THEN call.arg ELSE @[Len(@)]))]
    /\ UNCHANGED <<home, src, tracked, pc, report, conflicts, imports, syncMode, unreadable,
                   statusItems, selected, exitCode, pipe, treeA, treeB, digestA, digestB>>

NextSlug == Slugify

SpecSlug == InitSlug /\ [][NextSlug]_vars

(***************************************************************************)
(* buildPromptPreview called on two lists of lines                         *)
(***************************************************************************)
MaxPreviewLines == 5

\* One line of the preview, `line ${index + 1} home:   ${homeLine}` or
\* `line ${index + 1} source: ${sourceLine}`, kept as its three parts.
\* The loop of buildPromptPreview from position index on (positions count
\* from 1), `cap` the length at which it breaks.
RECURSIVE PreviewFrom(_, _, _, _, _)
PreviewFrom(homeLines, sourceLines, index, output, cap) ==
    LET max == IF Len(homeLines) >= Len(sourceLines) THEN Len(homeLines) ELSE Len(sourceLines)
        homeLine == IF index <= Len(homeLines) THEN homeLines[index] ELSE ""
        sourceLine == IF index <= Len(sourceLines) THEN sourceLines[index] ELSE ""
        pushed == output \o <<[line |-> index, side |-> "home", text |-> homeLine],
                              [line |-> index, side |-> "source", text |-> sourceLine]>>
    IN  IF index > max THEN output
        ELSE IF homeLine = sourceLine
        THEN PreviewFrom(homeLines, sourceLines, index + 1, output, cap)
        ELSE IF Len(pushed) >= cap THEN pushed
        ELSE PreviewFrom(homeLines, sourceLines, index + 1, pushed, cap)

\* Mutant: the loop breaks two lines later.
BuildPromptPreview_LateBreak(homeLines, sourceLines) ==
    PreviewFrom(homeLines, sourceLines, 1, <<>>, 10)

\* buildPromptPreview(homeLines, sourceLines).
BuildPromptPreview(homeLines, sourceLines) == PreviewFrom(homeLines, sourceLines, 1, <<>>, 8)

LineLists == UNION {[1..n -> {"", "x"}] : n \in 0..MaxPreviewLines}

InitPreview ==
    /\ InitScanIdle
    /\ InitFpIdle
    /\ call \in {[op |-> "buildPromptPreview", arg |-> [home |-> h, source |-> s], out |-> <<>>] :
                    h \in LineLists, s \in LineLists}

Preview ==
    /\ call.op = "buildPromptPreview"
    /\ call.out = <<>>
    /\ call' = [call EXCEPT !.out = <<BuildPromptPreview(call.arg.home, call.arg.source)>>]
    /\ UNCHANGED <<home, src, tracked, pc, report, conflicts, imports, syncMode, unreadable,
                   statusItems, selected, exitCode, pipe, treeA, treeB, digestA, digestB>>

NextPreview == Preview

SpecPreview == InitPreview /\ [][NextPreview]_vars

(***************************************************************************)
(* The lock file (core/agents-lock.ts): serializeAgentsLock, parseAgentsLock*)
(***************************************************************************)
\* String.prototype.replaceAll(from, to), from a non-empty string.
RECURSIVE ReplaceAllSeq(_, _, _)
ReplaceAllSeq(s, from, to) ==
    IF Len(s) < Len(from) THEN s
    ELSE IF SubSeq(s, 1, Len(from)) = from
    THEN to \o ReplaceAllSeq(SubSeq(s, Len(from) + 1, Len(s)), from, to)
    ELSE <<Head(s)>> \o ReplaceAllSeq(Tail(s), from, to)

\* quoteTomlString(value).
QuoteTomlString(value) ==
    <<"\"">>
    \o ReplaceAllSeq(ReplaceAllSeq(value, <<"\\">>, <<"\\", "\\">>), <<"\"">>, <<"\\", "\"">>)
    \o <<"\"">>

\* [...skills].sort((left, right) => left.id.localeCompare(right.id)): the
\* sort is stable, a skill goes after those it does not precede.
SortSkillsById(skills) ==
    LET RECURSIVE Insert(_, _)
        Insert(sorted, x) ==
            IF sorted = <<>> THEN <<x>>
            ELSE IF LocaleCompare(Head(sorted).id, x.id) > 0 THEN <<x>> \o sorted
            ELSE <<Head(sorted)>> \o Insert(Tail(sorted), x)
        RECURSIVE Sort(_)
        Sort(q) == IF q = <<>> THEN <<>>
                   ELSE Insert(Sort(SubSeq(q, 1, Len(q) - 1)), q[Len(q)])
    IN  Sort(skills)

\* serializeAgentsLock(lock).
SerializeAgentsLock(lock) ==
    LET sorted == SortSkillsById(lock.skills)
        LinesOf(skill) ==
            << <<>>,
               <<"[", "[", "s", "k", "i", "l", "l", "s", "]", "]">>,
               <<"i", "d", " ", "=", " ">> \o QuoteTomlString(skill.id),
               <<"s", "o", "u", "r", "c", "e", " ", "=", " ">> \o QuoteTomlString(skill.source),
               <<"r", "e", "s", "o", "l", "v", "e", "d", " ", "=", " ">>
                   \o QuoteTomlString(skill.resolved),
               <<"i", "n", "t", "e", "g", "r", "i", "t", "y", " ", "=", " ">>
                   \o QuoteTomlString(skill.integrity) >>
        lines == << <<"v", "e", "r", "s", "i", "o", "n", " ", "=", " ", "1">> >>
                 \o Flatten([n \in 1..Len(sorted) |-> LinesOf(sorted[n])])
                 \o << <<>> >>
    IN  Join(lines, NL) \o <<NL>>

\* stripTomlComment(line): the line up to the first '#' outside quotes.
StripTomlComment(line) ==
    LET RECURSIVE Cut(_, _, _)
        Cut(index, inQuotes, escaped) ==
            IF index > Len(line) THEN line
            ELSE IF escaped THEN Cut(index + 1, inQuotes, FALSE)
            ELSE IF line[index] = "\\" THEN Cut(index + 1, inQuotes, TRUE)
            ELSE IF line[index] = "\"" THEN Cut(index + 1, ~inQuotes, FALSE)
            ELSE IF line[index] = "#" /\ ~inQuotes THEN SubSeq(line, 1, index - 1)
            ELSE Cut(index + 1, inQuotes, FALSE)
    IN  Cut(1, FALSE, FALSE)

\* A parse that throws.
Thrown == [ok |-> FALSE]

\* parseTomlValue(valueRaw): an integer as its digits, a quoted string
\* without its quotes and escapes.
ParseTomlValue(valueRaw) ==
    LET whiteSpace == {" ", "\t", NL, "\r"}
        digits == {"0", "1", "2", "3", "4", "5", "6", "7", "8", "9"}
        value == DropTrailing(DropLeading(valueRaw, whiteSpace), whiteSpace)
    IN  IF value # <<>> /\ \A i \in 1..Len(value) : value[i] \in digits
        THEN [ok |-> TRUE, value |-> value]
        ELSE IF value # <<>> /\ Head(value) = "\"" /\ value[Len(value)] = "\""
        THEN [ok |-> TRUE,
              value |-> ReplaceAllSeq(ReplaceAllSeq(SubSeq(value, 2, Len(value) - 1),
                                                    <<"\\", "\"">>, <<"\"">>),
                                      <<"\\", "\\">>, <<"\\">>)]
        ELSE Thrown

\* parseTomlSections(raw): the top-level keys and the [[skills]] tables
\* (a table is a function from the keys met to their values).
ParseTomlSections(raw) ==
    LET whiteSpace == {" ", "\t", NL, "\r"}
        keyChars == {"a", "b", "c", "d", "e", "f", "g", "h", "i", "j", "k", "l", "m",
                     "n", "o", "p", "q", "r", "s", "t", "u", "v", "w", "x", "y", "z",
                     "A", "B", "C", "D", "E", "F", "G", "H", "I", "J", "K", "L", "M",
                     "N", "O", "P", "Q", "R", "S", "T", "U", "V", "W", "X", "Y", "Z",
                     "0", "1", "2", "3", "4", "5", "6", "7", "8", "9", "_", "-"}
        skillKeys == {<<"i", "d">>, <<"s", "o", "u", "r", "c", "e">>,
                      <<"r", "e", "s", "o", "l", "v", "e", "d">>,
                      <<"i", "n", "t", "e", "g", "r", "i", "t", "y">>}
        projectKeys == {<<"n", "a", "m", "e">>, <<"v", "e", "r", "s", "i", "o", "n">>}
        \* raw.split(/\r?\n/)
        DropCr(line) == IF line # <<>> /\ line[Len(line)] = "\r"
                        THEN SubSeq(line, 1, Len(line) - 1) ELSE line
        split == Split(raw, NL)
        lines == [n \in 1..Len(split) |-> IF n < Len(split) THEN DropCr(split[n]) ELSE split[n]]
        \* withoutComments.match(/^([a-zA-Z0-9_-]+)\s*=\s*(.+)$/)
        RECURSIVE KeyLen(_, _)
        KeyLen(text, n) ==
            IF n < Len(text) /\ text[n + 1] \in keyChars THEN KeyLen(text, n + 1) ELSE n
        Match(text) ==
            LET k == KeyLen(text, 0)
                afterKey == DropLeading(SubSeq(text, k + 1, Len(text)), whiteSpace)
                afterEq == IF afterKey # <<>> /\ Head(afterKey) = "="
                           THEN DropLeading(Tail(afterKey), whiteSpace) ELSE <<>>
            IN  IF k > 0 /\ afterEq # <<>>
                THEN [ok |-> TRUE, key |-> SubSeq(text, 1, k), value |-> afterEq]
                ELSE Thrown
        RECURSIVE Read(_, _, _, _, _)
        Read(n, section, topLevel, project, skills) ==
            IF n > Len(lines)
            THEN [ok |-> TRUE, topLevel |-> topLevel, project |-> project, skills |-> skills]
            ELSE
            LET text == DropTrailing(DropLeading(StripTomlComment(lines[n]), whiteSpace),
                                     whiteSpace)
                m == Match(text)
                v == ParseTomlValue(m.value)
            IN  IF text = <<>> THEN Read(n + 1, section, topLevel, project, skills)
                ELSE IF text = <<"[", "p", "r", "o", "j", "e", "c", "t", "]">>
                THEN Read(n + 1, "project", topLevel, project, skills)
                ELSE IF text = <<"[", "[", "s", "k", "i", "l", "l", "s", "]", "]">>
                THEN Read(n + 1, "skills", topLevel, project, Append(skills, <<>>))
                ELSE IF ~m.ok THEN Thrown
                ELSE IF ~v.ok THEN Thrown
                ELSE IF section = "top"
                THEN Read(n + 1, section, (m.key :> v.value) @@ topLevel, project, skills)
                ELSE IF section = "project"
                THEN IF m.key \notin projectKeys THEN Thrown
                     ELSE Read(n + 1, section, topLevel, (m.key :> v.value) @@ project, skills)
                ELSE IF skills = <<>> THEN Thrown
                ELSE IF m.key \notin skillKeys THEN Thrown
                ELSE Read(n + 1, section, topLevel, project,
                          [skills EXCEPT ![Len(skills)] = (m.key :> v.value) @@ @])
    IN  Read(1, "top", <<>>, <<>>, <<>>)

\* parseAgentsLock(raw).
ParseAgentsLock(raw) ==
    LET whiteSpace == {" ", "\t", NL, "\r"}
        parsed == ParseTomlSections(raw)
        fields == <<<<"i", "d">>, <<"s", "o", "u", "r", "c", "e">>,
                    <<"r", "e", "s", "o", "l", "v", "e", "d">>,
                    <<"i", "n", "t", "e", "g", "r", "i", "t", "y">>>>
        \* requiredValue: the field is there and is not blank
        Given(table, key) ==
            /\ key \in DOMAIN table
            /\ DropLeading(table[key], whiteSpace) # <<>>
        skills == [n \in 1..Len(parsed.skills) |->
                      [id |-> parsed.skills[n][fields[1]],
                       source |-> parsed.skills[n][fields[2]],
                       resolved |-> parsed.skills[n][fields[3]],
                       integrity |-> parsed.skills[n][fields[4]]]]
    IN  IF ~parsed.ok THEN Thrown
        ELSE IF <<"v", "e", "r", "s", "i", "o", "n">> \notin DOMAIN parsed.topLevel
                \/ parsed.topLevel[<<"v", "e", "r", "s", "i", "o", "n">>] # <<"1">>
        THEN Thrown
        ELSE IF \E n \in 1..Len(parsed.skills) : \E f \in 1..4 : ~Given(parsed.skills[n], fields[f])
        THEN Thrown
        ELSE IF \E i, j \in 1..Len(skills) : i < j /\ skills[i].id = skills[j].id
        THEN Thrown
        ELSE [ok |-> TRUE, version |-> 1, skills |-> SortSkillsById(skills)]

(***************************************************************************)
(* A lock is written, and read again                                       *)
(***************************************************************************)
MaxLockSkills == 2

\* Ids and field values of the skills of a lock: plain ones, the same
\* letter precomposed and decomposed, quotes, backslashes, '#', a blank.
LockIds == {<<"a">>, <<"b", "\"">>, <<EAcute>>, <<"e", CombiningAcute>>}
LockValues ==
    {<<"x">>, <<"\"">>, <<"\\">>, <<"#">>, <<"\\", "\"">>, <<" ">>}
LockSkills ==
    {[id |-> id, source |-> v, resolved |-> v, integrity |-> v] : id \in LockIds, v \in LockValues}
Locks ==
    {[version |-> 1, skills |-> skills] :
        skills \in {q \in UNION {[1..n -> LockSkills] : n \in 0..MaxLockSkills} :
                       \A i, j \in 1..Len(q) : i # j => q[i].id # q[j].id}}

InitLock ==
    /\ InitScanIdle
    /\ InitFpIdle
    /\ call \in {[op |-> "lock", arg |-> lock, out |-> <<>>] : lock \in Locks}

\* writeAgentsLock: the text of the lock file.
WriteLock ==
    /\ call.op = "lock"
    /\ call.out = <<>>
    /\ call' = [call EXCEPT !.out = <<SerializeAgentsLock(call.arg)>>]
    /\ UNCHANGED <<home, src, tracked, pc, report, conflicts, imports, syncMode, unreadable,
                   statusItems, selected, exitCode, pipe, treeA, treeB, digestA, digestB>>

\* loadAgentsLock: the lock parsed from the text written.
LoadLock ==
    /\ call.op = "lock"
    /\ Len(call.out) = 1
    /\ call' = [call EXCEPT !.out = Append(@, ParseAgentsLock(call.out[1]))]
    /\ UNCHANGED <<home, src, tracked, pc, report, conflicts, imports, syncMode, unreadable,
                   statusItems, selected, exitCode, pipe, treeA, treeB, digestA, digestB>>

NextLock ==
    \/ WriteLock
    \/ LoadLock

SpecLock == InitLock /\ [][NextLock]_vars

(***************************************************************************)
(* Skills installed from a lock, and checked against it                    *)
(* (core/agents-lock.ts, core/skills-cli.ts)                               *)
(* A path below <project>/.agents/skills is the sequence of its segments,  *)
(* a skill id the sequence path.join splits it into; a directory is the    *)
(* set of its files.                                                       *)
(***************************************************************************)
\* hashDirectory: the digest of the relative paths and contents of the
\* files below targetDir, which collectFiles lists in one fixed order.
HashDirectory(files, targetDir) ==
    Sha256({[path |-> SubSeq(f.path, Len(targetDir) + 1, Len(f.path)), bytes |-> f.bytes] :
                f \in {g \in files : StartsWith(g.path, targetDir)}})

\* normalizeIntegrity: an integrity is the hex digest, alone or after the
\* prefix "sha256:", which is sliced off.
NormalizeIntegrity(integrity) ==
    IF Len(integrity) = 2 /\ integrity[1] = "sha256:" THEN integrity[2] ELSE integrity[1]

\* stageSkillSource: what `npx skills add <sourceSpec>` stages.
StagedTrees ==
    [one |-> {[path |-> <<"SKILL.md">>, bytes |-> <<"1">>]},
     two |-> {[path |-> <<"SKILL.md">>, bytes |-> <<"2">>],
              [path |-> <<"notes", "n.md">>, bytes |-> <<"3">>]}]

StageSkill(sourceSpec) ==
    IF sourceSpec \in DOMAIN StagedTrees
    THEN [success |-> TRUE, skillDir |-> StagedTrees[sourceSpec],
          hash |-> HashDirectory(StagedTrees[sourceSpec], <<>>)]
    ELSE [success |-> FALSE]

\* One turn of the loop of installSkillsFromLock: the project's skill files
\* and the result pushed.
InstallSkillFromLock(files, skill) ==
    LET staged == StageSkill(skill.resolved)
        targetDir == skill.id
    IN  IF ~staged.success
        THEN [files |-> files, result |-> [id |-> skill.id, installed |-> FALSE]]
        ELSE IF NormalizeIntegrity(skill.integrity) # staged.hash
        THEN [files |-> files, result |-> [id |-> skill.id, installed |-> FALSE]]
        ELSE [files |-> {f \in files : ~StartsWith(f.path, targetDir)}
                            \cup {[path |-> targetDir \o f.path, bytes |-> f.bytes] :
                                      f \in staged.skillDir},
              result |-> [id |-> skill.id, installed |-> TRUE]]

\* checkInstalledSkillsAgainstLock for one skill of the lock.
CheckInstalledSkill(files, skill) ==
    IF ~(\E f \in files : StartsWith(f.path, skill.id)) THEN "missing"
    ELSE IF HashDirectory(files, skill.id) # NormalizeIntegrity(skill.integrity) THEN "mismatch"
    ELSE "ok"

CheckInstalledSkillsAgainstLock(files, lock) ==
    [i \in 1..Len(lock.skills) |->
        [id |-> lock.skills[i].id, status |-> CheckInstalledSkill(files, lock.skills[i])]]

InstallIds == {<<"a">>, <<"a", "b">>, <<"c">>}

InstallSkills ==
    {[id |-> id, source |-> spec, resolved |-> spec, integrity |-> integrity] :
        id \in InstallIds, spec \in {"one", "two", "gone"},
        integrity \in {<<"sha256:", HashDirectory(StagedTrees.one, <<>>)>>,
                       <<HashDirectory(StagedTrees.two, <<>>)>>}}

InstallLocks ==
    {[version |-> 1, skills |-> skills] :
        skills \in {s \in UNION {[1..n -> InstallSkills] : n \in 0..MaxLockSkills} :
                        \A i, j \in 1..Len(s) : i # j => s[i].id # s[j].id}}

\* The project before the install: no skill, or a skill left by an earlier
\* install.
InitInstall ==
    /\ InitScanIdle
    /\ InitFpIdle
    /\ call \in {[op |-> "install", arg |-> lock, files |-> files, results |-> <<>>, checks |-> <<>>] :
                    lock \in InstallLocks,
                    files \in {{}, {[path |-> <<"a", "old.md">>, bytes |-> <<"0">>]}}}

\* installSkillsFromLock, one skill of the lock at a time, in the order of
\* lock.skills.
InstallNext ==
    /\ call.op = "install"
    /\ Len(call.results) < Len(call.arg.skills)
    /\ \E step \in {InstallSkillFromLock(call.files, call.arg.skills[Len(call.results) + 1])} :
           call' = [call EXCEPT !.files = step.files, !.results = Append(@, step.result)]
    /\ UNCHANGED <<home, src, tracked, pc, report, conflicts, imports, syncMode, unreadable,
                   statusItems, selected, exitCode, pipe, treeA, treeB, digestA, digestB>>

\* checkInstalledSkillsAgainstLock on the same project, after the install
\* has returned.
CheckLock ==
    /\ call.op = "install"
    /\ Len(call.results) = Len(call.arg.skills)
    /\ call.arg.skills # <<>>
    /\ call.checks = <<>>
    /\ call' = [call EXCEPT !.checks = CheckInstalledSkillsAgainstLock(call.files, call.arg)]
    /\ UNCHANGED <<home, src, tracked, pc, report, conflicts, imports, syncMode, unreadable,
                   statusItems, selected, exitCode, pipe, treeA, treeB, digestA, digestB>>

NextInstall ==
    \/ InstallNext
    \/ CheckLock

SpecInstall == InitInstall /\ [][NextInstall]_vars

(***************************************************************************)
(* The walk of one source, explicit or not (core/assets.ts)                *)
(***************************************************************************)
\* The assets the walk of the source root itself yields (candidate "" of an
\* explicit source): every markdown file below the root is a prompt, the
\* manifest of a skill included, and every directory that holds a manifest
\* is a skill; the id is the path relative to the source root.
DiscoverInSourceRoot(s, i, kind) ==
    LET dirs == PROMPT_SOURCE_DIRS \o SKILL_SOURCE_DIRS
        InDir(dir, k) ==
            LET slotOf(id) == [source |-> i, dir |-> dir, kind |-> k, id |-> id]
                Found(id) == slotOf(id) \in DOMAIN s /\ s[slotOf(id)] # Absent
                ids == SelectSeq(IdsInWalkOrder, Found)
            IN  [n \in 1..Len(ids) |->
                    [id |-> dir \o <<"/">> \o ids[n]
                                \o (IF k = Skill /\ kind = Prompt
                                    THEN <<"/">> \o SubSeq(Manifest, 1, Len(Manifest) - Len(MdExt))
                                    ELSE <<>>),
                     kind |-> kind, source |-> Sources[i].name,
                     path |-> SlotPath(slotOf(ids[n]))
                                \o (IF k = Skill /\ kind = Prompt
                                    THEN <<"/">> \o Manifest ELSE <<>>)]]
    IN  Flatten([d \in 1..Len(dirs) |->
            IF kind = Skill THEN InDir(dirs[d], Skill)
            ELSE InDir(dirs[d], Prompt) \o InDir(dirs[d], Skill)])

\* discoverPromptsFromSource / discoverSkillsFromSource of a source whose
\* `explicit` flag is given: the candidates are "" and the conventional
\* sub-paths when it is set.
DiscoverFromSourceAs(s, i, kind, explicit) ==
    IF explicit
    THEN DiscoverInSourceRoot(s, i, kind) \o DiscoverFromSource(s, i, kind)
    ELSE DiscoverFromSource(s, i, kind)

\* The source file systems that hold MaxSourceFiles files at most.
SmallSources ==
    {s \in [AllSrcSlots -> {Absent} \cup PromptContents \cup SkillTrees] :
        /\ \A slot \in AllSrcSlots : s[slot] # Absent => s[slot] \in ContentsOf(slot.kind)
        /\ Cardinality({slot \in AllSrcSlots : s[slot] # Absent}) <= MaxSourceFiles}

InitDiscover ==
    /\ InitScanIdle
    /\ InitFpIdle
    /\ call \in {[op |-> "discover", arg |-> [s |-> s, source |-> i, explicit |-> explicit],
                  out |-> <<>>] :
                    s \in SmallSources, i \in 1..Len(Sources), explicit \in BOOLEAN}

\* The walk of one source, as scanUnsyncedAssets lists its assets.
Discover ==
    /\ call.op = "discover"
    /\ call.out = <<>>
    /\ \E prompts \in {DiscoverFromSourceAs(call.arg.s, call.arg.source, Prompt, call.arg.explicit)} :
       \E skills \in {DiscoverFromSourceAs(call.arg.s, call.arg.source, Skill, call.arg.explicit)} :
           call' = [call EXCEPT !.out = <<UniqueAssets(prompts) \o UniqueAssets(skills)>>]
    /\ UNCHANGED <<home, src, tracked, pc, report, conflicts, imports, syncMode, unreadable,
                   statusItems, selected, exitCode, pipe, treeA, treeB, digestA, digestB>>

NextDiscover == Discover

SpecDiscover == InitDiscover /\ [][NextDiscover]_vars

(***************************************************************************)
(* The target of an import (core/assets.ts)                                *)
(***************************************************************************)
\* path.join on POSIX for an absolute first part: the parts are joined with
\* "/", empty and "." segments are dropped, and ".." drops the segment
\* before it.
PathJoin(parts) ==
    LET RECURSIVE Resolve(_, _)
        Resolve(segments, stack) ==
            IF segments = <<>> THEN stack
            ELSE LET segment == Head(segments)
                 IN  IF segment = <<>> \/ segment = <<".">>
                     THEN Resolve(Tail(segments), stack)
                     ELSE IF segment = <<".", ".">>
                     THEN Resolve(Tail(segments),
                                  IF stack = <<>> THEN stack
                                  ELSE SubSeq(stack, 1, Len(stack) - 1))
                     ELSE Resolve(Tail(segments), Append(stack, segment))
    IN  <<"/">> \o Join(Resolve(Split(Join(parts, "/"), "/"), <<>>), "/")

\* toPosix(path.relative(root, entry)) of a walked entry, the markdown
\* extension stripped for a prompt: `rel` holds the names of the entries
\* from the walked root down to the entry.
DiscoveredId(kind, rel) ==
    IF kind = Prompt THEN DropMdSuffix(Join(rel, "/")) ELSE Join(rel, "/")

\* Mutant: the prompt target is joined without the extension.
ImportTarget_NoExt(kind, id) ==
    IF kind = Prompt
    THEN PathJoin(<<HomeRoot, PromptsDir, id>>)
    ELSE PathJoin(<<HomeRoot, SkillsDir, id>>)

\* `target` of importDiscoveredAssetToHome.
ImportTarget(kind, id) ==
    IF kind = Prompt
    THEN PathJoin(<<HomeRoot, PromptsDir, id \o MdExt>>)
    ELSE PathJoin(<<HomeRoot, SkillsDir, id>>)

\* Names a directory entry can have: never ".", "..", nor with a "/".
MaxWalkDepth == 2
DirectoryNames == {<<"a">>, <<".", ".", "a">>, <<".", ".", ".">>}
MarkdownNames ==
    {<<"a", ".", "m", "d">>, <<"a", ".", "M", "D">>, <<".", "m", "d">>,
     <<".", ".", "m", "d">>, <<".", ".", ".", "m", "d">>}

\* The entries a walk pushes: markdown files for prompts, directories that
\* hold a manifest for skills.
WalkedEntries ==
    LET below == UNION {[1..n -> DirectoryNames] : n \in 0..MaxWalkDepth}
    IN  {[kind |-> Prompt, rel |-> Append(dirs, name)] : dirs \in below, name \in MarkdownNames}
            \cup {[kind |-> Skill, rel |-> dirs] : dirs \in below \ {<<>>}}

InitTarget ==
    /\ InitScanIdle
    /\ InitFpIdle
    /\ call \in {[op |-> "import", arg |-> entry, out |-> <<>>] : entry \in WalkedEntries}

\* The entry is discovered, and importDiscoveredAssetToHome computes where
\* to copy it.
ComputeTarget ==
    /\ call.op = "import"
    /\ call.out = <<>>
    /\ call' = [call EXCEPT !.out =
                    <<ImportTarget(call.arg.kind, DiscoveredId(call.arg.kind, call.arg.rel))>>]
    /\ UNCHANGED <<home, src, tracked, pc, report, conflicts, imports, syncMode, unreadable,
                   statusItems, selected, exitCode, pipe, treeA, treeB, digestA, digestB>>

\* The scan command and its imports, and the targets of walked entries of
\* every name.
InitImport == Init \/ InitTarget

NextImport ==
    \/ pc # "idle" /\ Next
    \/ ComputeTarget

SpecImport == InitImport /\ [][NextImport]_vars

(***************************************************************************)
(* Properties of the scan command                                          *)
(***************************************************************************)
\* The report and the conflict list describe the present file systems.
Fresh == pc \in {"scanned", "rescanned"}

Identities == ValidHomeSlots

\* The discovered copies of an identity, and what is known of them.
CopiesOf(kind, id) == {a \in Range(DiscoveredAssets) : a.kind = kind /\ a.id = id}
Discovered(kind, id) == CopiesOf(kind, id) # {}
SourceDigests(kind, id) ==
    {FingerprintAsset(a.kind, a.path, SrcContent(src, a.path)).hash : a \in CopiesOf(kind, id)}
SourceLabels(kind, id) == {a.source : a \in CopiesOf(kind, id)}

\* The home copy of an identity.
InHome(kind, id) == home[<<kind, id>>] # Absent
HomeDigest(kind, id) == FingerprintAsset(kind, HomeRoot, home[<<kind, id>>]).hash
HomeDiffers(kind, id) == InHome(kind, id) /\ HomeDigest(kind, id) \notin SourceDigests(kind, id)
HomeAgrees(kind, id) == InHome(kind, id) /\ SourceDigests(kind, id) = {HomeDigest(kind, id)}
InGit(kind, id) ==
    IF kind = Prompt
    THEN (PromptsDir \o <<"/">> \o id \o MdExt) \in tracked
    ELSE \E f \in tracked : StartsWith(f, SkillsDir \o <<"/">> \o id \o <<"/">>)

\* The entries of the conflict list for an identity, and the state reported.
EntriesOf(kind, id) ==
    {i \in 1..Len(conflicts) : conflicts[i].kind = kind /\ conflicts[i].id = id}
Reported(kind, id, state) ==
    /\ EntriesOf(kind, id) # {}
    /\ \A i \in EntriesOf(kind, id) : conflicts[i].state = state

IsUnsynced(kind, id) == \E a \in Range(UnsyncedAssets) : a.kind = kind /\ a.id = id

\* C1: an identity whose discovered copies have two or more distinct
\* fingerprints is reported ambiguous-multi-source, whatever the home state.
C1_AmbiguityDominates ==
    Fresh => \A x \in Identities :
        Cardinality(SourceDigests(x[1], x[2])) >= 2
            => Reported(x[1], x[2], "ambiguous-multi-source")

C1_Witness ==
    /\ Fresh
    /\ \E x \in Identities :
        /\ Cardinality(SourceDigests(x[1], x[2])) >= 2
        /\ InHome(x[1], x[2]) /\ InGit(x[1], x[2])
        /\ HomeDigest(x[1], x[2]) \in SourceDigests(x[1], x[2])
        /\ Reported(x[1], x[2], "ambiguous-multi-source")

\* C2: an import without overwrite whose canonical home target exists fails
\* with the already-exists error and leaves the whole home store as it was.
C2_NoOverwriteWithoutForce ==
    \A i \in 1..Len(imports) :
        (imports[i].existed /\ ~imports[i].force)
            => /\ ~imports[i].ok
               /\ imports[i].error = AlreadyExists
               /\ imports[i].after = imports[i].before
               /\ (i = Len(imports) => home = imports[i].before)

C2_Witness ==
    \E i \in 1..Len(imports) :
        /\ imports[i].existed /\ ~imports[i].force /\ ~imports[i].ok
        /\ imports[i].asset.kind = Skill
        /\ imports[i].before[<<Skill, imports[i].asset.id>>]
                # SrcContent(src, imports[i].asset.path)

\* C3: one distinct source fingerprint, a home copy with another fingerprint:
\* content-drift if the home copy is tracked, home-modified-untracked if not.
C3_DriftByTracking ==
    Fresh => \A x \in Identities :
        (Cardinality(SourceDigests(x[1], x[2])) = 1 /\ HomeDiffers(x[1], x[2]))
            => Reported(x[1], x[2],
                        IF InGit(x[1], x[2]) THEN "content-drift"
                        ELSE "home-modified-untracked")

C3_Witness ==
    /\ Fresh
    /\ \E x \in Identities :
        /\ Cardinality(SourceDigests(x[1], x[2])) = 1 /\ HomeDiffers(x[1], x[2])
        /\ ~InGit(x[1], x[2])
        /\ Reported(x[1], x[2], "home-modified-untracked")

\* C4: sources that do not disagree, a home copy with their fingerprint and
\* not tracked: home-untracked; home-untracked is never reported for a
\* tracked home copy nor for disagreeing sources.
C4_HomeUntracked ==
    Fresh => \A x \in Identities :
        /\ (Discovered(x[1], x[2]) /\ HomeAgrees(x[1], x[2]) /\ ~InGit(x[1], x[2]))
            => Reported(x[1], x[2], "home-untracked")
        /\ (\E i \in EntriesOf(x[1], x[2]) : conflicts[i].state = "home-untracked")
            => (~InGit(x[1], x[2]) /\ Cardinality(SourceDigests(x[1], x[2])) <= 1)

C4_Witness ==
    /\ Fresh
    /\ \E x \in Identities :
        /\ Discovered(x[1], x[2]) /\ HomeAgrees(x[1], x[2]) /\ ~InGit(x[1], x[2])
        /\ Reported(x[1], x[2], "home-untracked")

\* C5 (as stated): an identity in home whose fingerprint matches that of its
\* single source is classified no-conflict.
C5_MatchIsNoConflict ==
    Fresh => \A x \in Identities :
        (Cardinality(CopiesOf(x[1], x[2])) = 1 /\ HomeAgrees(x[1], x[2]))
            => Reported(x[1], x[2], "no-conflict")

\* C5 (amended): an identity in home whose fingerprint matches that of its
\* single source is classified no-conflict when the home copy is tracked,
\* and home-untracked when it is not.
C5_MatchByTracking ==
    Fresh => \A x \in Identities :
        (Cardinality(CopiesOf(x[1], x[2])) = 1 /\ HomeAgrees(x[1], x[2]))
            => Reported(x[1], x[2],
                        IF InGit(x[1], x[2]) THEN "no-conflict" ELSE "home-untracked")

C5_Witness ==
    /\ Fresh
    /\ \E x \in Identities :
        /\ Cardinality(CopiesOf(x[1], x[2])) = 1 /\ HomeAgrees(x[1], x[2])
        /\ InGit(x[1], x[2])
        /\ Reported(x[1], x[2], "no-conflict")

\* C6: an identity discovered from exactly one source, with no home asset,
\* is classified no-conflict and listed as unsynced.
C6_OneSourceNoHome ==
    Fresh => \A x \in Identities :
        (Cardinality(SourceLabels(x[1], x[2])) = 1 /\ ~InHome(x[1], x[2]))
            => (Reported(x[1], x[2], "no-conflict") /\ IsUnsynced(x[1], x[2]))

\* C7: the conflict list holds exactly one entry per discovered identity and
\* none for any other, each with one of the five states and the sorted set
\* of the source labels of the identity's copies.
StrictlySorted(q) == \A i, j \in 1..Len(q) : i < j => CodeUnitLess(q[i], q[j])

C7_OneEntryPerIdentity ==
    Fresh =>
        /\ \A x \in Identities :
            Discovered(x[1], x[2]) => Cardinality(EntriesOf(x[1], x[2])) = 1
        /\ \A i \in 1..Len(conflicts) :
            /\ <<conflicts[i].kind, conflicts[i].id>> \in Identities
            /\ Discovered(conflicts[i].kind, conflicts[i].id)
            /\ conflicts[i].state \in ConflictStates
            /\ Range(conflicts[i].sources) = SourceLabels(conflicts[i].kind, conflicts[i].id)
            /\ StrictlySorted(conflicts[i].sources)

C7_Witness ==
    /\ Fresh
    /\ \E i \in 1..Len(conflicts) :
        /\ conflicts[i].id = IdXY
        /\ Len(conflicts[i].sources) = 2

\* C10: a non-interactive sync of all unsynced assets copies no asset of an
\* identity classified ambiguous-multi-source into home.
C10_SyncAllSkipsAmbiguous ==
    syncMode = "sync-all" =>
        \A i \in 1..Len(imports) :
            imports[i].ok =>
                ~(\E c \in 1..Len(conflicts) :
                    /\ conflicts[c].kind = imports[i].asset.kind
                    /\ conflicts[c].id = imports[i].asset.id
                    /\ conflicts[c].state = "ambiguous-multi-source")


(***************************************************************************)
(* Properties of the batch import                                          *)
(***************************************************************************)
\* A batch of syncSelectedAssets has returned.
BatchDone == pc = "synced" /\ syncMode \in {"sync-all", "sync-select"}

\* The assets the batch had to import, in the order of the unsynced list.
BatchTargets ==
    LET Chosen(asset) == AssetKey(asset) \in selected.keys
    IN  IF selected.isNull THEN UnsyncedAssets ELSE SelectSeq(UnsyncedAssets, Chosen)

\* Every target was attempted once, in order, each attempt starting from
\* the home store the attempt before it left, and each failing for a reason
\* of its own: its target exists and overwrite is off, or its source
\* cannot be read.
BatchAttemptsAll ==
    /\ [i \in 1..Len(imports) |-> imports[i].asset] = BatchTargets
    /\ \A i \in 1..Len(imports) :
        /\ i < Len(imports) => imports[i + 1].before = imports[i].after
        /\ i = Len(imports) => home = imports[i].after
        /\ imports[i].ok <=>
            /\ ~(imports[i].existed /\ ~imports[i].force)
            /\ SrcContent(Visible(src, unreadable), imports[i].asset.path) # Eacces
        /\ imports[i].ok =>
            imports[i].after =
                [imports[i].before EXCEPT ![<<imports[i].asset.kind, imports[i].asset.id>>] =
                    SrcContent(src, imports[i].asset.path)]

SomeImportFailed == \E i \in 1..Len(imports) : ~imports[i].ok

\* C11 (as stated): every selected asset is attempted once and in order, a
\* failure touches its own asset only, and the batch returns 1 exactly when
\* some import failed, 0 otherwise.
C11_BatchCodeIffFailure ==
    BatchDone =>
        /\ BatchAttemptsAll
        /\ exitCode = (IF SomeImportFailed THEN 1 ELSE 0)

\* C11 (amended): every selected asset is attempted once and in order, a
\* failure touches its own asset only, and the batch returns 1 exactly when
\* some import failed or an explicit selection matched no unsynced asset, 0
\* otherwise.
C11_BatchCodeIffFailureOrNoMatch ==
    BatchDone =>
        /\ BatchAttemptsAll
        /\ exitCode = (IF SomeImportFailed \/ (~selected.isNull /\ BatchTargets = <<>>)
                       THEN 1 ELSE 0)

C11_Witness ==
    /\ BatchDone
    /\ exitCode = 1
    /\ \E i, j, k \in 1..Len(imports) :
        i < j /\ j < k /\ imports[i].ok /\ ~imports[j].ok /\ imports[k].ok


(***************************************************************************)
(* Properties of the scan over file systems that deny access               *)
(***************************************************************************)
\* One run of the command has ended, with its lists or by throwing.
ScanEnded == pc \in {"scanned", "rescanned", "crashed"}

\* The identities of the discovered assets, and those all of whose copies
\* can be read.
DiscoveredIdentities == {<<a.kind, a.id>> : a \in Range(DiscoveredAssets)}
Readable(kind, id) ==
    \A a \in CopiesOf(kind, id) : SrcContent(Visible(src, unreadable), a.path) # Eacces

\* C12: a read error while fingerprinting a copy of one identity is kept to
\* that identity: the scan does not throw, and every other discovered
\* identity still gets its classification.
C12_ReadErrorIsPerAsset ==
    ScanEnded =>
        /\ pc # "crashed"
        /\ \A x \in DiscoveredIdentities : Readable(x[1], x[2]) => EntriesOf(x[1], x[2]) # {}


(***************************************************************************)
(* Properties of the importer and of the lists of the scan                 *)
(***************************************************************************)
\* C13: an import with overwrite into an existing target replaces the whole
\* asset: afterwards the home copy is the source copy, and no file of the
\* previous home copy remains; for prompts and for skill directories.
C13_OverwriteReplacesWhole ==
    \A i \in 1..Len(imports) :
        LET e == imports[i]
        IN  (e.force /\ e.existed /\ e.ok) =>
                HomeContent(e.after, e.asset.kind, e.asset.id) = SrcContent(src, e.asset.path)

\* A skill directory is imported with overwrite over a home copy that holds
\* a file the source copy does not have.
C13_Witness ==
    \E i \in 1..Len(imports) :
        LET e == imports[i]
        IN  /\ e.force /\ e.existed /\ e.ok /\ e.asset.kind = Skill
            /\ ExtraFile \in DOMAIN HomeContent(e.before, Skill, e.asset.id).tree
            /\ ExtraFile \notin DOMAIN SrcContent(src, e.asset.path).tree


\* C14: the lists of a scan are a function of the file systems alone: in
\* whatever order the concurrent walks and fingerprint reads settle, the
\* report, the status items and the conflict list are the ones produced.
C14_SettleOrderIrrelevant ==
    ScanEnded => \A order \in SettleOrders :
        LET s == Visible(src, unreadable)
            r == ScanUnsyncedAssets(home, s, order)
            discovered == r.discoveredPrompts \o r.discoveredSkills
        IN  /\ report = r
            /\ statusItems = BuildScanStatusItems(discovered, ListHomePromptIds(home),
                                                  ListHomeSkillIds(home), tracked)
            /\ FingerprintThrows(s, discovered) <=> pc = "crashed"
            /\ pc # "crashed" =>
                   conflicts = BuildScanConflicts(home, s, discovered, tracked, order)

\* A scan has walked both sources and has read the copies of one identity
\* held by both.
C14_Witness ==
    /\ Fresh
    /\ \E a, b \in Range(DiscoveredAssets) : a.source # b.source /\ a.kind # b.kind
    /\ \E i \in 1..Len(conflicts) : Len(conflicts[i].sources) = 2


\* A list is in the order of the sort by kind, then id, then joined sources.
Ordered(q) == \A i, j \in 1..Len(q) : i < j => StatusCompare(q[i], q[j]) <= 0
AssetRows(assets) ==
    [i \in 1..Len(assets) |->
        [kind |-> assets[i].kind, id |-> assets[i].id, sources |-> <<assets[i].source>>]]

\* C15: every list of the scan output (discovered prompts and skills,
\* unsynced prompts and skills, status items, conflicts) is ordered by kind,
\* then id, then joined source list.
C15_EveryBucketOrdered ==
    Fresh =>
        /\ Ordered(AssetRows(report.discoveredPrompts))
        /\ Ordered(AssetRows(report.discoveredSkills))
        /\ Ordered(AssetRows(report.unsyncedPrompts))
        /\ Ordered(AssetRows(report.unsyncedSkills))
        /\ Ordered(statusItems)
        /\ Ordered(conflicts)


\* The status items of an identity.
ItemsOf(kind, id) ==
    {i \in 1..Len(statusItems) : statusItems[i].kind = kind /\ statusItems[i].id = id}

\* C16: the status items partition the discovered identities: each has
\* exactly one item and no other identity has one; the state is unsynced iff
\* the id is not a home id of the kind, synced-tracked iff it is in home and
\* tracked, synced-untracked otherwise; the sources are the labels of all
\* the sources that hold the identity.
C16_StatusPartition ==
    Fresh =>
        /\ \A i \in 1..Len(statusItems) :
               <<statusItems[i].kind, statusItems[i].id>> \in AllHomeSlots
        /\ \A x \in AllHomeSlots :
               IF Discovered(x[1], x[2])
               THEN /\ Cardinality(ItemsOf(x[1], x[2])) = 1
                    /\ \A i \in ItemsOf(x[1], x[2]) :
                        /\ statusItems[i].state =
                               (IF ~InHome(x[1], x[2]) THEN "unsynced-untracked"
                                ELSE IF InGit(x[1], x[2]) THEN "synced-tracked"
                                ELSE "synced-untracked")
                        /\ Range(statusItems[i].sources) = SourceLabels(x[1], x[2])
                        /\ Len(statusItems[i].sources) = Cardinality(SourceLabels(x[1], x[2]))
               ELSE ItemsOf(x[1], x[2]) = {}

\* The status view holds a tracked and an untracked synced identity.
C16_Witness ==
    /\ Fresh
    /\ \E i, j \in 1..Len(statusItems) :
        /\ statusItems[i].state = "synced-tracked"
        /\ statusItems[j].state = "synced-untracked"


\* The existing files and directories of the sources below a given root.
HeldBy(k) == {slot \in AllSrcSlots : slot.source = k /\ src[slot] # Absent}
DiscoveredFrom(k) == {a \in Range(DiscoveredAssets) : a.source = Sources[k].name}

C19_ScanLeavesHome ==
    [][pc' \in {"scanned", "rescanned", "crashed"} => home' = home]_vars

\* A scan has run over a home store that holds an asset also found in a
\* source, and no import has been made.
C19_Witness ==
    /\ pc = "scanned" /\ imports = <<>>
    /\ \E x \in Identities : InHome(x[1], x[2]) /\ Discovered(x[1], x[2])


\* The entries of the conflict list and of the status view whose id
\* normalizes to the slug of id.
EntriesOfSlug(kind, id) ==
    {i \in 1..Len(conflicts) :
        conflicts[i].kind = kind /\ SlugifyName(conflicts[i].id) = SlugifyName(id)}
ItemsOfSlug(kind, id) ==
    {i \in 1..Len(statusItems) :
        statusItems[i].kind = kind /\ SlugifyName(statusItems[i].id) = SlugifyName(id)}

\* C20: identities are compared after id normalization: the discovered
\* assets of one kind whose ids normalize to the same slug (ids that differ
\* in letter case only, for one) are one identity, with one entry that holds
\* the sources of all of them.
C20_NormalizedIdsAreOneIdentity ==
    Fresh => \A a \in Range(DiscoveredAssets) :
        /\ Cardinality(EntriesOfSlug(a.kind, a.id)) = 1
        /\ Cardinality(ItemsOfSlug(a.kind, a.id)) = 1
        /\ \A b \in Range(DiscoveredAssets) :
            (b.kind = a.kind /\ SlugifyName(b.id) = SlugifyName(a.id))
                => \A i \in EntriesOfSlug(a.kind, a.id) : b.source \in Range(conflicts[i].sources)


(***************************************************************************)
(* Properties of the order of the awaits                                   *)
(***************************************************************************)
\* C17: the reconciler starts only after the walk of every source has
\* completed, and the state of an identity is decided only after the
\* fingerprints of all its source copies and the read of its home copy: no
\* entry is made from a part of the results, and the lists returned are
\* those of the complete file systems.
C17_NoPartialResults ==
    /\ pipe.phase \in {"reconciling", "done"} =>
           /\ \A k \in 1..Len(Sources) :
                  k \in pipe.settled /\ pipe.walks[k] = WalkSource(src, k)
           /\ \A n \in 1..Len(pipe.basis) :
                  /\ pipe.basis[n].read = 1..pipe.basis[n].copies
                  /\ pipe.basis[n].home
                  /\ pipe.basis[n].copies =
                         Cardinality({a \in Range(DiscoveredAssets) :
                                         GroupKey(a) = pipe.basis[n].key})
    /\ pipe.phase = "done" =>
           /\ report = ScanUnsyncedAssets(home, src, SourceOrder)
           /\ conflicts = BuildScanConflicts(home, src, DiscoveredAssets, tracked, SourceOrder)

\* A scan has ended that read an identity held by both sources and by the
\* home store, and another identity.
C17_Witness ==
    /\ pipe.phase = "done"
    /\ \E n \in 1..Len(pipe.basis) : pipe.basis[n].copies = 2
    /\ \E x \in Identities : InHome(x[1], x[2]) /\ Discovered(x[1], x[2])


(***************************************************************************)
(* Properties of slugifyName                                               *)
(***************************************************************************)
\* The segments of a slug; the empty slug has none.
SegmentsOf(slug) == IF slug = <<>> THEN <<>> ELSE Split(slug, "/")

\* C21: the slug slugifyName returns has no uppercase letter, no empty
\* segment, no "." or ".." segment and no leading or trailing "/": joined to
\* a directory it stays below it.
C21_SlugStaysBelow ==
    call.op = "slugifyName" => \A n \in 1..Len(call.out) :
        LET slug == call.out[n]
        IN  /\ ToLowerCase(slug) = slug
            /\ \A i \in 1..Len(SegmentsOf(slug)) :
                   SegmentsOf(slug)[i] \notin {<<>>, <<".">>, <<".", ".">>}
            /\ slug # <<>> => (Head(slug) # "/" /\ slug[Len(slug)] # "/")

\* A name with an uppercase letter and a ".." segment between two others has
\* been slugified.
C21_Witness ==
    /\ call.op = "slugifyName"
    /\ call.arg = <<"a", "/", ".", ".", "/", "B">>
    /\ Len(call.out) >= 1
    /\ call.out[1] = <<"a", "/", "b">>

\* C30: slugifyName is idempotent: called on a slug it returned, it returns
\* that slug.
C30_SlugifyIdempotent ==
    (call.op = "slugifyName" /\ Len(call.out) = 2) => call.out[2] = call.out[1]


(***************************************************************************)
(* Properties of buildPromptPreview                                        *)
(***************************************************************************)
\* The line of a list at a position, "" past its end.
LineAt(lines, i) == IF i <= Len(lines) THEN lines[i] ELSE ""

\* C24: the preview holds lines for positions where the home line and the
\* source line differ only, as a home line followed by the source line of
\* the same position, the positions increasing, and never more than 8 lines.
C24_PreviewPairsCapped ==
    (call.op = "buildPromptPreview" /\ call.out # <<>>) =>
        LET preview == call.out[1]
        IN  /\ Len(preview) <= 8
            /\ Len(preview) % 2 = 0
            /\ \A k \in 1..Len(preview) :
                   k % 2 = 1 =>
                       /\ preview[k].side = "home" /\ preview[k + 1].side = "source"
                       /\ preview[k + 1].line = preview[k].line
                       /\ preview[k].text = LineAt(call.arg.home, preview[k].line)
                       /\ preview[k + 1].text = LineAt(call.arg.source, preview[k].line)
                       /\ preview[k].text # preview[k + 1].text
                       /\ k + 2 <= Len(preview) => preview[k].line < preview[k + 2].line

\* Five positions differ, the source list being the shorter one, and the
\* preview stops after the fourth.
C24_Witness ==
    /\ call.op = "buildPromptPreview" /\ call.out # <<>>
    /\ call.arg.home = <<"x", "x", "x", "x", "x">>
    /\ call.arg.source = <<>>
    /\ Len(call.out[1]) = 8
    /\ call.out[1][8].line = 4


(***************************************************************************)
(* Properties of the lock file                                             *)
(***************************************************************************)
\* C23: for a lock with unique ids and non-empty single-line values, the
\* lock parsed from its serialized text has version 1 and exactly its
\* skills, the four fields unchanged, sorted by id; and the serialized text
\* is the same for every order of the skills.
C23_LockRoundTrip ==
    (call.op = "lock" /\ Len(call.out) = 2) =>
        LET parsed == call.out[2]
        IN  /\ parsed.ok
            /\ parsed.version = 1
            /\ Len(parsed.skills) = Len(call.arg.skills)
            /\ Range(parsed.skills) = Range(call.arg.skills)
            /\ \A i, j \in 1..Len(parsed.skills) :
                   i < j => LocaleCompare(parsed.skills[i].id, parsed.skills[j].id) < 0
            /\ \A other \in Locks :
                   Range(other.skills) = Range(call.arg.skills)
                       => SerializeAgentsLock(other) = call.out[1]


(***************************************************************************)
(* Properties of the install from a lock                                   *)
(***************************************************************************)
\* C22: when installSkillsFromLock has gone through the whole lock and
\* every result says installed, checkInstalledSkillsAgainstLock on the same
\* project reports ok for every skill of the lock, also when one id is a
\* path prefix of another.
C22_InstallThenCheckOk ==
    (call.op = "install" /\ call.checks # <<>>
        /\ \A i \in 1..Len(call.results) : call.results[i].installed)
        => \A i \in 1..Len(call.checks) : call.checks[i].status = "ok"


(***************************************************************************)
(* Report Builder and Reconciler within one scan                           *)
(***************************************************************************)
HomePresenceStates == {"content-drift", "home-modified-untracked", "home-untracked"}

\* C25: within one scan, no identity is both listed as unsynced by the
\* report and classified content-drift, home-modified-untracked or
\* home-untracked in the conflict list, also when its home skill directory
\* exists without a manifest file.
C25_HomePresenceAgreed ==
    Fresh => \A i \in 1..Len(conflicts) :
        conflicts[i].state \in HomePresenceStates
            => ~IsUnsynced(conflicts[i].kind, conflicts[i].id)


(***************************************************************************)
(* A scan after an import                                                  *)
(***************************************************************************)
\* The imports of the log that succeeded and that no later import of the
\* same identity followed with success.
LastingImports ==
    {n \in 1..Len(imports) :
        /\ imports[n].ok
        /\ \A m \in (n + 1)..Len(imports) :
               imports[m].ok => GroupKey(imports[m].asset) # GroupKey(imports[n].asset)}

SameIdentity(i) ==
    {j \in 1..Len(UnsyncedAssets) : GroupKey(UnsyncedAssets[j]) = GroupKey(UnsyncedAssets[i])}

OutcomesOf(j) == {n \in 1..Len(imports) : imports[n].asset = UnsyncedAssets[j]}

C28_OnePathOneIdentity ==
    (call.op = "discover" /\ call.out # <<>>) =>
        \A a, b \in Range(call.out[1]) :
            (a.kind = b.kind /\ a.path = b.path) => a.id = b.id


(***************************************************************************)
(* Where the importer writes                                               *)
(***************************************************************************)
\* The target lies beneath <home>/prompts or <home>/skills, by kind, and
\* has no ".." segment.
InsideHome(kind, target) ==
    LET segments == Split(target, "/")
        dir == Split(HomeRoot \o <<"/">> \o (IF kind = Prompt THEN PromptsDir ELSE SkillsDir), "/")
    IN  /\ Len(segments) > Len(dir)
        /\ SubSeq(segments, 1, Len(dir)) = dir
        /\ \A n \in 1..Len(segments) : segments[n] # <<".", ".">>

\* C29: the target importDiscoveredAssetToHome computes for a discovered
\* asset lies beneath <home>/prompts for a prompt and beneath <home>/skills
\* for a skill and has no ".." segment; once the scan command runs, no step
\* changes a source file, and a step changes the home copy of an identity
\* only by an import of an asset of that identity.
C29_ImportStaysInHome ==
    [][/\ (call'.op = "import" /\ call'.out # <<>>) => InsideHome(call'.arg.kind, call'.out[1])
       /\ \A n \in 1..Len(imports') :
              InsideHome(imports'[n].asset.kind,
                         ImportTarget(imports'[n].asset.kind, imports'[n].asset.id))
       /\ pc' \notin {"setup", "idle"} =>
              /\ src' = src
              /\ \A hs \in DOMAIN home :
                     home'[hs] # home[hs] =>
                         \E n \in 1..Len(imports') :
                             <<imports'[n].asset.kind, imports'[n].asset.id>> = hs]_vars

\* The file "...md" of a walked root is the prompt "..": its target is
\* <home>/prompts/...md.
C29_Witness ==
    /\ call.op = "import"
    /\ call.arg.kind = Prompt
    /\ DiscoveredId(Prompt, call.arg.rel) = <<".", ".">>
    /\ call.out = <<HomeRoot \o <<"/">> \o PromptsDir \o <<"/", ".", ".", ".", "m", "d">>>>

====
